---- MODULE Spec2Model ----
(***************************************************************************)
(* The eth1 deposit exporter (package exporter): the polling loop          *)
(* eth1DepositsExporter, fetchEth1Deposits, eth1BatchRequestHeadersAndTxs  *)
(* and saveEth1Deposits, together with the execution client and the        *)
(* eth1_deposits table they talk to; and the Prysm client (package rpc):   *)
(* the chain-head stream task and its block channel, the epoch assignment  *)
(* cache, and the conversion of wire block containers.  Each component has *)
(* its own specification, in which the other components stay at rest.      *)
(***************************************************************************)
EXTENDS Integers, Naturals, Sequences, FiniteSets, TLC

(* ------------------------------------------------------------------ *)
(* Bounds of the model                                                 *)
(* ------------------------------------------------------------------ *)

\* Width of the unsigned block-number arithmetic.  The program uses uint64;
\* the model keeps the wrap-around of an unsigned word of WordBits bits, far
\* above every block number of the model.
WordBits == 16

\* Largest number of logs one FilterLogs response carries.
MaxLogs == 2

Modulus == 2 ^ WordBits

(* ------------------------------------------------------------------ *)
(* Program constants                                                   *)
(* ------------------------------------------------------------------ *)

eth1LookBack == 100

eth1MaxFetch == 1000

\* The literal batch width of "toBlock = fromBlock + 1000".
BatchStep == 1000

\* The literal width of the narrowed retry, "toBlock = fromBlock + 100".
RetryStep == 100

(* ------------------------------------------------------------------ *)
(* Universes of the environment                                        *)
(* ------------------------------------------------------------------ *)

TxHashes == {"t1", "t2"}

Indices == {0, 1}

\* A run of the exporter: the configured first block of the deposit contract,
\* the head heights the execution client may report during the run, and what
\* the chain and the provider of the run can show: the transactions and
\* merkle-tree indices of its deposit logs, the values of their removed flag,
\* whether a log lies at the start or at the end of the requested range,
\* whether logs with undecodable data occur, whether sub-responses of the
\* provider's batch replies can fail, and the error texts of the provider.
Run(first, heads, txs, idx, removed, places, malformed, faults, errs) ==
  [first |-> first, heads |-> heads, txs |-> txs, idx |-> idx, removed |-> removed,
   places |-> places, malformed |-> malformed, faults |-> faults, errs |-> errs]

\* The run of an exporter that is not started.
NoRun == Run(0, {}, {}, {}, {}, {}, FALSE, FALSE, {})

Scenarios ==
  { Run(100, {500, 2000}, {"t1"}, {0}, {FALSE}, {"to"}, FALSE, FALSE, {"plain"}),
    Run(100, {548, 550},  {"t1"}, {0}, {FALSE}, {"to"}, FALSE, FALSE, {"plain"}),
    Run(100, {50, 120},   {"t1"}, {0}, {FALSE}, {"from", "to"}, FALSE, FALSE, {"plain"}),
    Run(0,   {30, 1100},  {"t1"}, {0}, {FALSE}, {"to"}, FALSE, FALSE, {"plain"}),
    Run(100, {500},       {"t1"}, {0}, {FALSE}, {"to"}, FALSE, FALSE,
        {"plain", "results", "entity"}),
    Run(100, {500, 501},  TxHashes, Indices, BOOLEAN, {"to"}, FALSE, FALSE, {"plain"}),
    Run(100, {500},       TxHashes, Indices, {FALSE}, {"from", "to"}, TRUE, TRUE, {"plain"}) }

\* The keys (tx hash, merkle-tree index) whose deposit data carries a BLS
\* signature that does not verify.  The signature is part of the log data of
\* the deposit, so it is the same in every observation of the deposit.
BadSignatureKeys == { <<"t2", 1>>, <<"t1", 0>> }

\* An error value: the text it wraps (cause) and the prefix fmt.Errorf put in
\* front of it.  NoErr is the nil error.
NoErr == [prefix |-> "", cause |-> "nil"]

\* Error texts, by what the two regular expressions of the exporter see.
ErrTooManyResults == [prefix |-> "", cause |-> "query returned more than 10000 results"]

ErrEntityTooLarge == [prefix |-> "", cause |-> "413 Request Entity Too Large"]

ErrOther == [prefix |-> "", cause |-> "other error"]

\* The errors the provider of a run can answer with.
ProviderErrors(run) ==
  (IF "plain" \in run.errs THEN {ErrOther} ELSE {})
  \cup (IF "results" \in run.errs THEN {ErrTooManyResults} ELSE {})
  \cup (IF "entity" \in run.errs THEN {ErrEntityTooLarge} ELSE {})

(* ------------------------------------------------------------------ *)
(* uint arithmetic                                                     *)
(* ------------------------------------------------------------------ *)

Add(a, b) == (a + b) % Modulus

Sub(a, b) == (a - b + Modulus) % Modulus

Max(a, b) == IF a < b THEN b ELSE a

Min(a, b) == IF a < b THEN a ELSE b

(* ------------------------------------------------------------------ *)
(* Range selection, lines 76-97                                        *)
(* ------------------------------------------------------------------ *)

FromBlockBase_NoProgress(lastDep, lastFetched, first) ==
  LET f0 == Add(lastDep, 1)
  IN  IF f0 < first THEN first ELSE f0

\* fromBlock after the two "start" adjustments (lines 76, 80-86).
FromBlockBase(lastDep, lastFetched, first) ==
  LET f0 == Add(lastDep, 1)
      f1 == IF f0 < first THEN first ELSE f0
  IN  IF f1 < Add(lastFetched, 1) THEN Add(lastFetched, 1) ELSE f1

CapToBlock_Uncapped(from, height) == height

\* toBlock after the batch cap (lines 77, 88-93).
CapToBlock(from, height) ==
  LET t0 == height
      t1 == IF Sub(t0, from) > eth1MaxFetch THEN Add(from, BatchStep) ELSE t0
  IN  IF t1 > height THEN height ELSE t1

LookBackTaken_NoGuard(from, to) == Sub(to, from) < eth1LookBack

\* The condition of the look-back branch (line 95).
LookBackTaken(from, to) ==
  (Sub(to, from) < eth1LookBack) /\ (to > eth1LookBack)

\* fromBlock after the look-back branch (lines 95-97).
LookBackFrom(from, to) ==
  IF LookBackTaken(from, to) THEN Sub(to, eth1LookBack) ELSE from

\* toBlock of the narrowed retry (lines 102-105).
NarrowToBlock(from, height) ==
  LET t == Add(from, RetryStep)
  IN  IF t > height THEN height ELSE t

MatchString_Always(e) == TRUE

\* infuraToMuchResultsErrorRE / gethRequestEntityTooLargeRE on an error text
\* (lines 37, 38, 101).
MatchString(e) == e \in {ErrTooManyResults.cause, ErrEntityTooLarge.cause}

(* ------------------------------------------------------------------ *)
(* Errors                                                              *)
(* ------------------------------------------------------------------ *)

\* fmt.Errorf("<prefix>: %w", cause): the text of the cause stays part of the
\* text of the wrapping error.
Wrap(prefix, e) == [prefix |-> prefix, cause |-> e.cause]

\* err.Error(), as far as the regular expressions can tell texts apart.
ErrorText(e) == e.cause

\* Line 101: either regular expression matches err.Error().
IsTooLarge(e) == e # NoErr /\ MatchString(ErrorText(e))

(* ------------------------------------------------------------------ *)
(* Logs of the deposit contract, as FilterLogs returns them            *)
(* ------------------------------------------------------------------ *)

\* kind "deposit": topic 0 is the deposit event and the data unpacks;
\* kind "malformed": topic 0 is the deposit event and the data does not unpack;
\* kind "other": topic 0 is another event.
DepositLogs(run, from, to) ==
  { [kind |-> "deposit", txHash |-> h, blockNumber |-> b, index |-> i, removed |-> r] :
      h \in run.txs,
      b \in { IF p = "from" THEN from ELSE to : p \in run.places },
      i \in run.idx, r \in run.removed }

PlainLogs(run, to) ==
  { [kind |-> k, txHash |-> "t1", blockNumber |-> to, index |-> 0, removed |-> FALSE] :
      k \in IF run.malformed THEN {"malformed", "other"} ELSE {"other"} }

\* The deposit contract numbers its events: within one response the deposit
\* logs come in chain order with increasing merkle-tree index, and the logs of
\* one transaction lie in one block.
ChainOrdered(logs) ==
  \A i, j \in 1..Len(logs) :
    (i < j /\ logs[i].kind = "deposit" /\ logs[j].kind = "deposit") =>
      /\ logs[i].index < logs[j].index
      /\ logs[i].blockNumber <= logs[j].blockNumber
      /\ (logs[i].txHash = logs[j].txHash => logs[i].blockNumber = logs[j].blockNumber)

SeqsUpTo(S, n) == UNION { [1..k -> S] : k \in 0..n }

\* The responses FilterLogs can give for [from, to]; an empty or inverted
\* range holds no log.
Responses(run, from, to) ==
  IF from > to THEN { << >> }
  ELSE { logs \in SeqsUpTo(DepositLogs(run, from, to) \cup PlainLogs(run, to), MaxLogs) :
           ChainOrdered(logs) }

(* ------------------------------------------------------------------ *)
(* fetchEth1Deposits, decoding loop (lines 204-233)                    *)
(* ------------------------------------------------------------------ *)

\* deposit.VerifyDepositSignature(...) == nil (lines 212-218).
VerifyDepositSignature(log) == <<log.txHash, log.index>> \notin BadSignatureKeys

\* The Eth1Deposit appended at lines 221-232 (not yet enriched).
NewDeposit(log) ==
  [txHash |-> log.txHash, blockNumber |-> log.blockNumber, index |-> log.index,
   removed |-> log.removed, validSignature |-> VerifyDepositSignature(log),
   blockTs |-> 0, fromAddress |-> << >>]

\* Position of the first log whose data does not unpack (0: none).
FirstMalformed(logs) ==
  LET bad == { i \in 1..Len(logs) : logs[i].kind = "malformed" }
  IN  IF bad = {} THEN 0 ELSE CHOOSE i \in bad : \A j \in bad : i <= j

IsDepositLog_DropInvalid(log) == log.kind = "deposit" /\ VerifyDepositSignature(log)

\* Line 205 (topic check) and line 209 (the data unpacks).
IsDepositLog(log) == log.kind = "deposit"

\* The loop of lines 204-233: the deposits, blocksToFetch and txsToFetch
\* appended before the loop ends or returns at line 210.
DecodeLogs(logs) ==
  LET bad  == FirstMalformed(logs)
      seen == IF bad = 0 THEN logs ELSE SubSeq(logs, 1, bad - 1)
      kept == SelectSeq(seen, IsDepositLog)
      deps == [i \in 1..Len(kept) |-> NewDeposit(kept[i])]
  IN  [deposits      |-> deps,
       blocksToFetch |-> [i \in 1..Len(deps) |-> deps[i].blockNumber],
       txsToFetch    |-> [i \in 1..Len(deps) |-> deps[i].txHash],
       unpackErr     |-> bad # 0]

(* ------------------------------------------------------------------ *)
(* eth1BatchRequestHeadersAndTxs (lines 329-377)                       *)
(* ------------------------------------------------------------------ *)

Dedup(s) ==
  SelectSeq([i \in 1..Len(s) |-> IF \E j \in 1..(i - 1) : s[j] = s[i] THEN <<"dup">> ELSE <<"new", s[i]>>],
            LAMBDA x : x[1] = "new")

BuildElems_Distinct(blocksToFetch, txsToFetch) ==
  [i \in 1..Len(Dedup(blocksToFetch)) |->
      [method |-> "eth_getBlockByNumber", arg |-> Dedup(blocksToFetch)[i][2]]]
  \o
  [i \in 1..Len(Dedup(txsToFetch)) |->
      [method |-> "eth_getTransactionByHash", arg |-> Dedup(txsToFetch)[i][2]]]

\* The batch elements appended by the two loops of lines 335-359.
BuildElems(blocksToFetch, txsToFetch) ==
  [i \in 1..Len(blocksToFetch) |->
      [method |-> "eth_getBlockByNumber", arg |-> blocksToFetch[i]]]
  \o
  [i \in 1..Len(txsToFetch) |->
      [method |-> "eth_getTransactionByHash", arg |-> txsToFetch[i]]]

\* What the execution client answers to one BatchCall of nb header and nt
\* transaction elements: a transport error; or no transport error and at most
\* one sub-response that carries an error, or one transaction whose sender
\* cannot be recovered.  zeroTxPanics says what reading a Transaction left at
\* its zero value does: a nil dereference that ends the process, or a nil
\* chain id.
BatchReplies(run, nb, nt, hashes) ==
  { [ioErr |-> e, failed |-> {}, badSender |-> {}, zeroTxPanics |-> FALSE] :
      e \in ProviderErrors(run) }
  \cup
  { [ioErr |-> NoErr, failed |-> {}, badSender |-> {}, zeroTxPanics |-> FALSE] }
  \cup
  IF ~run.faults THEN {}
  ELSE { [ioErr |-> NoErr, failed |-> {i}, badSender |-> {}, zeroTxPanics |-> FALSE] :
           i \in 1..nb }
       \cup
       { [ioErr |-> NoErr, failed |-> {nb + i}, badSender |-> {}, zeroTxPanics |-> p] :
           i \in 1..nt, p \in BOOLEAN }
       \cup
       { [ioErr |-> NoErr, failed |-> {}, badSender |-> {h}, zeroTxPanics |-> FALSE] :
           h \in hashes }

NoReply == [ioErr |-> NoErr, failed |-> {}, badSender |-> {}, zeroTxPanics |-> FALSE]

\* The errors slice after BatchCall (lines 333, 337, 345, 350, 358): each entry
\* is the value err had when it was appended, nil; BatchCall writes the error
\* of a sub-response to the Error field of its element, not to this slice.
ErrorsSlice(n, reply) == [i \in 1..n |-> NoErr]

BatchCallCount_Always(elems) == 1

\* Lines 361-365: BatchCall is reached unless there is no element.
BatchCallCount(elems) == IF Len(elems) = 0 THEN 0 ELSE 1

HeaderTime(b) == b + 1

LastPos(s, x) == CHOOSE i \in 1..Len(s) : s[i] = x /\ \A j \in 1..Len(s) : s[j] = x => j <= i

Range(s) == { s[i] : i \in 1..Len(s) }

\* Result of eth1BatchRequestHeadersAndTxs: a map entry holds the object of
\* the last element appended for its key; the object of a sub-request that
\* failed keeps its zero value.
eth1BatchRequestHeadersAndTxs(blocksToFetch, txsToFetch, reply) ==
  LET elems  == BuildElems(blocksToFetch, txsToFetch)
      nb     == Len(blocksToFetch)
      errors == ErrorsSlice(Len(elems), reply)
      bad    == { i \in 1..Len(elems) : errors[i] # NoErr }
      hdrs   == [b \in Range(blocksToFetch) |->
                   IF LastPos(blocksToFetch, b) \in reply.failed
                   THEN [time |-> 0] ELSE [time |-> HeaderTime(b)]]
      txs    == [h \in Range(txsToFetch) |->
                   IF (nb + LastPos(txsToFetch, h)) \in reply.failed
                   THEN "zero" ELSE "tx"]
  IN  IF BatchCallCount(elems) = 0
      THEN [headers |-> hdrs, txs |-> txs, err |-> NoErr, calls |-> 0, elems |-> elems]
      ELSE IF reply.ioErr # NoErr
      THEN [headers |-> << >>, txs |-> << >>, err |-> reply.ioErr, calls |-> 1, elems |-> elems]
      ELSE IF bad # {}
      THEN [headers |-> << >>, txs |-> << >>,
            err |-> errors[CHOOSE i \in bad : \A j \in bad : i <= j],
            calls |-> 1, elems |-> elems]
      ELSE [headers |-> hdrs, txs |-> txs, err |-> NoErr, calls |-> 1, elems |-> elems]

(* ------------------------------------------------------------------ *)
(* fetchEth1Deposits (lines 144-267)                                   *)
(* ------------------------------------------------------------------ *)

SenderOf(h) == <<"sender", h>>

\* First deposit whose transaction cannot be used (0: none), lines 249-262.
FirstBadTx(deps, txs, reply) ==
  LET bad == { i \in 1..Len(deps) :
                 txs[deps[i].txHash] = "zero" \/ deps[i].txHash \in reply.badSender }
  IN  IF bad = {} THEN 0 ELSE CHOOSE i \in bad : \A j \in bad : i <= j

\* The loop of lines 240-264: deposits before the first unusable transaction
\* are enriched, that one has its timestamp only, later ones are untouched.
Enrich(deps, headers, txs, k) ==
  [i \in 1..Len(deps) |->
     IF k # 0 /\ i > k THEN deps[i]
     ELSE IF i = k THEN [deps[i] EXCEPT !.blockTs = headers[deps[i].blockNumber].time]
     ELSE [deps[i] EXCEPT !.blockTs = headers[deps[i].blockNumber].time,
                          !.fromAddress = SenderOf(deps[i].txHash)]]

\* The result of one call (deposits, err, panicked) and what the call did:
\* how many deposits it decoded, how many BatchCall round trips it made with
\* which elements, whether a sub-response carried an error, and the keys of
\* the deposit logs of the response.
FetchResult(deps, err, panicked, decoded, calls, elems, subErr) ==
  [deposits |-> deps, err |-> err, panicked |-> panicked, decoded |-> decoded,
   batchCalls |-> calls, elems |-> elems, subErr |-> subErr]

DepositKeys(logs) ==
  { <<logs[i].txHash, logs[i].index>> : i \in { j \in 1..Len(logs) : logs[j].kind = "deposit" } }

\* fetchEth1Deposits on a FilterLogs response and a batch reply.
fetchEth1Deposits(logs, reply) ==
  LET dec   == DecodeLogs(logs)
      deps  == dec.deposits
      n     == Len(deps)
      batch == eth1BatchRequestHeadersAndTxs(dec.blocksToFetch, dec.txsToFetch, reply)
      sub   == batch.calls = 1 /\ reply.ioErr = NoErr /\ reply.failed # {}
      k     == FirstBadTx(deps, batch.txs, reply)
  IN  IF dec.unpackErr
      THEN FetchResult(deps, Wrap("error unpacking eth1-deposit-log", ErrOther),
                       FALSE, n, 0, << >>, FALSE)
      ELSE IF batch.err # NoErr
      THEN FetchResult(deps, Wrap("error getting eth1-blocks", batch.err),
                       FALSE, n, batch.calls, batch.elems, sub)
      ELSE IF k = 0
      THEN FetchResult(Enrich(deps, batch.headers, batch.txs, 0), NoErr,
                       FALSE, n, batch.calls, batch.elems, sub)
      ELSE IF batch.txs[deps[k].txHash] = "zero" /\ reply.zeroTxPanics
      THEN FetchResult(Enrich(deps, batch.headers, batch.txs, k), NoErr,
                       TRUE, n, batch.calls, batch.elems, sub)
      ELSE IF batch.txs[deps[k].txHash] = "zero"
      THEN FetchResult(Enrich(deps, batch.headers, batch.txs, k),
                       Wrap("error getting tx-chainId for eth1-deposit", ErrOther),
                       FALSE, n, batch.calls, batch.elems, sub)
      ELSE FetchResult(Enrich(deps, batch.headers, batch.txs, k),
                       Wrap("error getting sender for eth1-deposit", ErrOther),
                       FALSE, n, batch.calls, batch.elems, sub)

\* FilterLogs fails (lines 153-156): nothing is decoded.
FetchFailedEarly(cause) ==
  FetchResult(<< >>, Wrap("error getting logs from eth1-client", cause),
              FALSE, 0, 0, << >>, FALSE)

(* ------------------------------------------------------------------ *)
(* The eth1_deposits table and saveEth1Deposits (lines 269-324)        *)
(* ------------------------------------------------------------------ *)

KeyOf(d) == <<d.txHash, d.index>>

Upsert_PlainInsert(rows, d) == rows \cup {d}

Upsert_KeepExisting(rows, d) ==
  IF \E r \in rows : KeyOf(r) = KeyOf(d) THEN rows ELSE rows \cup {d}

\* INSERT ... ON CONFLICT (tx_hash, merkletree_index) DO UPDATE SET every
\* other column (lines 277-305).
Upsert(rows, d) == { r \in rows : KeyOf(r) # KeyOf(d) } \cup {d}

RECURSIVE ExecAll(_, _, _)
\* The rows the transaction sees after the first n Exec calls of line 312.
ExecAll(rows, batch, n) ==
  IF n = 0 THEN rows ELSE Upsert(ExecAll(rows, batch, n - 1), batch[n])

Rollback_KeepsWrites(rows, txRows) == txRows

\* defer tx.Rollback() (line 274) on a transaction that was not committed:
\* the table is what it was at Begin.
Rollback(rows, txRows) == rows

\* Where a call of saveEth1Deposits can fail.
SaveFaults(batch) ==
  {<<"none", 0>>, <<"begin", 0>>, <<"prepare", 0>>, <<"commit", 0>>}
  \cup { <<"exec", i>> : i \in 1..Len(batch) }

saveEth1Deposits(rows, batch, fault) ==
  CASE fault[1] = "none"    -> [store |-> ExecAll(rows, batch, Len(batch)), err |-> NoErr]
    [] fault[1] = "begin"   -> [store |-> rows, err |-> ErrOther]
    [] fault[1] = "prepare" -> [store |-> Rollback(rows, rows), err |-> ErrOther]
    [] fault[1] = "exec"    ->
         [store |-> Rollback(rows, ExecAll(rows, batch, fault[2] - 1)),
          err   |-> Wrap("error saving eth1-deposit to db", ErrOther)]
    [] fault[1] = "commit"  ->
         [store |-> Rollback(rows, ExecAll(rows, batch, Len(batch))),
          err   |-> Wrap("error commiting db-tx for eth1-deposits", ErrOther)]

\* select coalesce(max(block_number),0) from eth1_deposits (line 62).
MaxBlockNumber(rows) ==
  IF rows = {} THEN 0
  ELSE CHOOSE b \in { r.blockNumber : r \in rows } : \A r \in rows : r.blockNumber <= b

(* ------------------------------------------------------------------ *)
(* State                                                               *)
(* ------------------------------------------------------------------ *)

VARIABLES
  pc,                \* position of eth1DepositsExporter in its loop
  lastFetchedBlock,  \* line 56
  lastDepositBlock,  \* line 61
  blockHeight,       \* line 74
  fromBlock,         \* line 76
  toBlock,           \* line 77
  depositsToSave,    \* line 99
  store,             \* the rows of eth1_deposits
  scenario,          \* the run: eth1DepositContractFirstBlock, heads, chain
  outcome,           \* how the last ended cycle ended
  fromBase,          \* fromBlock before the look-back branch (line 87)
  fetchCalls,        \* fetchEth1Deposits calls of the current cycle
  firstFetch,        \* range and error of the first call of the cycle
  lastFetch,         \* range, response keys and result of the latest call
  saveCalls,         \* saveEth1Deposits calls of the current cycle
  saveFault,         \* where the latest saveEth1Deposits call failed, if it did
  startLFB,          \* lastFetchedBlock when the current cycle started
  synced,            \* the last successful cycle ended with toBlock = head
  syncedHead,        \* the head of the last successful cycle
  storeBefore        \* the rows of eth1_deposits when the cycle's save began

exporterVars ==
  <<pc, lastFetchedBlock, lastDepositBlock, blockHeight, fromBlock, toBlock,
    depositsToSave, store, scenario, outcome, fromBase, fetchCalls,
    firstFetch, lastFetch, saveCalls, saveFault, startLFB, synced, syncedHead,
    storeBefore>>

\* The chain-head stream task of NewPrysmClient and the block channel.
VARIABLES
  spc,               \* position of the stream task (prysm.go lines 80-110)
  streamRun,         \* the run: what the beacon node and the consumer do
  head,              \* head.HeadSlot of the message being handled (line 82)
  listing,           \* the containers the node holds at that slot
  blocks,            \* what is left of the blocks slice of line 98 to send
  newBlockChan,      \* the buffer of client.newBlockChan (line 70)
  heads,             \* number of head messages received so far
  dueLeft,           \* roots of the looked-up blocks still to be sent, in order
  nForwarded,        \* number of send statements (line 107) completed
  lastForwarded,     \* the block of the latest completed send statement
  nReceived,         \* number of blocks consumers took from GetNewBlockChan()
  lastReceived,      \* the block a consumer took last
  sleeps,            \* time.Sleep calls since the last receive error
  attempts,          \* StreamChainHead calls since the last receive error
  consuming          \* the consumer is reading the channel

streamVars ==
  <<spc, streamRun, head, listing, blocks, newBlockChan, heads, dueLeft, nForwarded,
    lastForwarded, nReceived, lastReceived, sleeps, attempts, consuming>>

\* GetEpochAssignments, its mutex and its cache.
VARIABLES
  cpc,                  \* position of each caller of GetEpochAssignments
  cepoch,               \* the epoch argument of each caller
  assignmentsCacheMux,  \* the holder of the mutex (line 69)
  assignmentsCache,     \* the lru cache (line 73), most recently used first
  cacheRun,             \* the run: who calls, for which epochs, what the node answers
  pagesRead,            \* ListValidatorAssignments calls of the running computation
  instances,            \* number of EpochAssignments built so far (line 189)
  callsMade,            \* number of GetEpochAssignments calls so far
  cres,                 \* what each caller's latest finished call returned and did
  follows,              \* the call each caller waited for at the mutex, same epoch
  committed,            \* per epoch, the instance last added to the cache
  addsSince,            \* per epoch, cache additions since it was added or hit
  gathered,             \* what the running computation has appended so far (line 208)
  lastPage,             \* the latest ListValidatorAssignments response (line 203)
  heap                  \* the EpochAssignments built so far, by instance

cacheVars ==
  <<cpc, cepoch, assignmentsCacheMux, assignmentsCache, cacheRun, pagesRead, instances,
    callsMade, cres, follows, committed, addsSince, gathered, lastPage, heap>>

\* parseRpcBlock and GetBlockStatusByEpoch on one wire container.
VARIABLES
  ppc,               \* "wire": a container arrived; "done": parseRpcBlock returned;
                     \* "status": GetBlockStatusByEpoch returned
  container,         \* the *ethpb.BeaconBlockContainer
  lookup,            \* what GetEpochAssignments answers during the conversion
  parsed,            \* what parseRpcBlock returned
  canon              \* what GetBlockStatusByEpoch was answered and returned

parseVars == <<ppc, container, lookup, parsed, canon>>

\* GetEpochData and GetSlotData, their fan-out tasks and the head-slot
\* counter.
VARIABLES
  PrysmLatestHeadSlot,  \* line 45
  snapRun,              \* the run: which calls are made, what the node and the store answer
  gpc,                  \* position of each caller of GetEpochData / GetSlotData
  garg,                 \* what each caller was called with, and its current slot
  refs,                 \* slot1d, slot7d, slot31d of each call (lines 265-277, 1435-1447)
  task,                 \* position of each fan-out task of each call
  results,              \* the seven result maps of each call, and who wrote them
  snap                  \* what each caller's latest call returned

snapVars == <<PrysmLatestHeadSlot, snapRun, gpc, garg, refs, task, results, snap>>

vars == <<exporterVars, streamVars, cacheVars, parseVars, snapVars>>

(* ------------------------------------------------------------------ *)
(* The Prysm client: runs and start states                             *)
(* ------------------------------------------------------------------ *)

\* make(chan *types.Block, 1000), prysm.go line 70.
newBlockChanCap == 1000

\* lru.New(10), prysm.go line 73.
assignmentsCacheSize == 10

\* Head messages of a run of the stream task with an eager consumer.
MaxHeads == 2

\* Head messages of the run whose consumer starts late: with two blocks a
\* slot they fill the channel and leave blocks to wait for.
BacklogHeads == 502

\* Consecutive failures of StreamChainHead after one receive error.
MaxAttempts == 2

\* Pages of one ListValidatorAssignments computation.
MaxPages == 2

\* Calls of GetEpochAssignments in a run with two callers.
MaxCalls == 4

\* Calls of GetEpochAssignments in the run that walks through the epochs.
SweepCalls == 13

\* Transactions and withdrawals of a wire execution payload, and
\* BLS-to-execution changes of a wire block body.
MaxTxs == 2

MaxWithdrawals == 2

MaxChanges == 1

Roots == {"ra", "rb"}

\* A run of the stream task: how many head messages the beacon node sends,
\* whether their slots count up or are drawn from a set, the roots of the
\* containers the node can hold at a slot and whether it can hold a container
\* with no variant populated, whether Recv, StreamChainHead and
\* ListBeaconBlocks can fail, and whether the consumer starts reading only
\* once the channel is full.
StreamRun(n, slots, roots, unparseable, faults, lazy) ==
  [heads |-> n, slots |-> slots, roots |-> roots, unparseable |-> unparseable,
   faults |-> faults, lazy |-> lazy]

NoStreamRun == StreamRun(0, {}, {}, FALSE, FALSE, FALSE)

StreamRuns ==
  { StreamRun(MaxHeads, {0, 7}, Roots, TRUE, TRUE, FALSE),
    StreamRun(BacklogHeads, {}, Roots, FALSE, FALSE, TRUE) }

\* What the channel carries for a *types.Block: the slot and root of the
\* block pointed to, and the number of the send statement that placed it.
Ref(b, n) == [slot |-> b.slot, blockRoot |-> b.blockRoot, seq |-> n]

NoRef == [slot |-> 0, blockRoot |-> "", seq |-> 0]

\* The stream task after NewPrysmClient returned (line 111), in one of the
\* runs R: the stream of line 75 is open and the channel is empty.
StreamStart(R) ==
  /\ spc = "recv"
  /\ streamRun \in R
  /\ head = 0
  /\ listing = << >>
  /\ blocks = << >>
  /\ newBlockChan = << >>
  /\ heads = 0
  /\ dueLeft = << >>
  /\ nForwarded = 0
  /\ lastForwarded = NoRef
  /\ nReceived = 0
  /\ lastReceived = NoRef
  /\ sleeps = 0
  /\ attempts = 0
  /\ consuming = FALSE

StreamAtRest == StreamStart({NoStreamRun})

Callers == {"c1", "c2"}

Epochs == 0..(assignmentsCacheSize + 1)

\* A run of GetEpochAssignments: who calls it, how often in all, for which
\* epochs, whether the epochs are asked for in walking order (the next epoch
\* never asked for, or epoch 0 again), the responses ListValidatorAssignments
\* can give, and whether it can fail.
CacheRun(callers, calls, epochs, sweep, pages, faults) ==
  [callers |-> callers, calls |-> calls, epochs |-> epochs, sweep |-> sweep,
   pages |-> pages, faults |-> faults]

NoCacheRun == CacheRun({}, 0, {}, FALSE, {}, FALSE)

\* An ethpb.ValidatorAssignments response: the number of its Assignments,
\* whether any of them has proposer slots, whether any has committee
\* members, NextPageToken and TotalSize.
Page(n, proposers, attestors, token, totalSize) ==
  [err |-> FALSE, n |-> n, proposers |-> proposers, attestors |-> attestors,
   token |-> token, totalSize |-> totalSize]

NoPage == Page(0, FALSE, FALSE, "", 0)

FailedPage == [NoPage EXCEPT !.err = TRUE]

MaxPageSize == 2

\* Every response of up to MaxPageSize assignments, with a token or without,
\* reporting any total up to one more than two pages hold.
AnyPages ==
  { Page(0, FALSE, FALSE, t, z) : t \in {"", "t"}, z \in 0..(2 * MaxPageSize - 1) }
  \cup { Page(n, pa[1], pa[2], t, z) :
           n \in 1..MaxPageSize, pa \in (BOOLEAN \X BOOLEAN) \ {<<FALSE, FALSE>>},
           t \in {"", "t"}, z \in 0..(2 * MaxPageSize - 1) }

CacheRuns ==
  { CacheRun(Callers, MaxCalls, {3, 4}, FALSE,
             { Page(1, TRUE, TRUE, "t", 2), Page(1, TRUE, TRUE, "", 2), NoPage }, TRUE),
    CacheRun({"c1"}, SweepCalls, Epochs, TRUE, { Page(1, TRUE, TRUE, "", 1) }, FALSE),
    CacheRun({"c1"}, 1, {3}, FALSE, AnyPages, TRUE) }

\* What a finished call returned and did: its epoch, the instance returned
\* (0: nil), whether it returned an error, how many ListValidatorAssignments
\* calls it made, whether it added its instance to the cache, and what the
\* caller found when it had the mutex: the instance last added for the epoch
\* and the number of additions since the epoch was added or hit.
NoCall ==
  [done |-> FALSE, epoch |-> 0, inst |-> 0, err |-> FALSE, listCalls |-> 0,
   added |-> FALSE, before |-> 0, adds |-> 0]

\* The call a caller waited for: one of the same epoch that held the mutex
\* while the caller was at Lock, with what it returned and did.
NoFollow == [valid |-> FALSE, inst |-> 0, err |-> FALSE, listCalls |-> 0, added |-> FALSE]

\* The client after NewPrysmClient (lines 69, 73): the mutex is free and the
\* cache is empty.
CacheStart(R) ==
  /\ cpc = [c \in Callers |-> "idle"]
  /\ cepoch = [c \in Callers |-> 0]
  /\ assignmentsCacheMux = "free"
  /\ assignmentsCache = << >>
  /\ cacheRun \in R
  /\ pagesRead = 0
  /\ instances = 0
  /\ callsMade = 0
  /\ cres = [c \in Callers |-> NoCall]
  /\ follows = [c \in Callers |-> NoFollow]
  /\ committed = [e \in Epochs |-> 0]
  /\ addsSince = [e \in Epochs |-> 0]
  /\ gathered = NoPage
  /\ lastPage = NoPage
  /\ heap = << >>

CacheAtRest == CacheStart({NoCacheRun})

\* A wire execution payload: nil; or the empty payload of a block before the
\* merge (ParentHash all zero, no transaction, no withdrawal); or a payload
\* with a parent hash.  A transaction is named by what decoding it gives.
NoPayload ==
  [present |-> FALSE, parentHash |-> "zero", transactions |-> << >>,
   withdrawals |-> << >>]

EmptyPayload ==
  [present |-> TRUE, parentHash |-> "zero", transactions |-> << >>,
   withdrawals |-> << >>]

SetPayload(txs, ws) ==
  [present |-> TRUE, parentHash |-> "hash", transactions |-> txs, withdrawals |-> ws]

TxKinds == {"ok", "undecodable", "badSender"}

WireWithdrawals ==
  { [index |-> i, validatorIndex |-> 10 + i, address |-> "a", amount |-> 32] :
      i \in {0, 1} }

\* An ethpb.BeaconBlockContainer: which variant of the oneof is populated
\* ("none": no one), BlockRoot, Canonical, and of the populated block its
\* slot, execution payload, whether it has a sync aggregate, the number of
\* its BLS-to-execution changes, and its attestations.
Container(variant, root, canonical, slot, payload, sync, changes, atts) ==
  [variant |-> variant, blockRoot |-> root, canonical |-> canonical, slot |-> slot,
   payload |-> payload, syncAggregate |-> sync, blsChanges |-> changes,
   attestations |-> atts]

\* utils.Config.Chain.Config.SlotsPerEpoch.
SlotsPerEpoch == 32

MaxBits == 3

AttEpochs == {0, 1}

\* An ethpb.Attestation: Data.Slot, Data.CommitteeIndex and the bits of the
\* aggregation bitlist, bits[i + 1] being BitAt(i).
WireAttestation(slot, committee, bits) ==
  [slot |-> slot, committeeIndex |-> committee, aggregationBits |-> bits]

PlainAttestation == WireAttestation(33, 0, << TRUE >>)

\* utils.FormatAttestorAssignmentKey(slot, committee, member).
AttestorKey(slot, committee, member) == << slot, committee, member >>

\* The keys of the committees of an epoch, and the validator the chain has
\* at each.
CommitteeKeys(e) ==
  { AttestorKey(e * SlotsPerEpoch + 1, c, i) : c \in {0, 1}, i \in 0..(MaxBits - 1) }

MemberAt(k) == 1 + k[3] + 10 * k[2] + 100 * (k[1] \div SlotsPerEpoch)

\* The AttestorAssignments map GetEpochAssignments returns for an epoch: of
\* every member of its committees, without the members at position 1, or
\* empty.
AttestorMaps(e) ==
  { [k \in K |-> MemberAt(k)] :
      K \in { CommitteeKeys(e), { k \in CommitteeKeys(e) : k[3] # 1 }, {} } }

\* What GetEpochAssignments answers during a conversion: an error, or the
\* assignments of the epoch asked for.
Answer(err, maps) == [err |-> err, attestors |-> maps]

OkAnswer == Answer(FALSE, [e \in AttEpochs |-> [k \in CommitteeKeys(e) |-> MemberAt(k)]])

ErrAnswer == Answer(TRUE, [e \in AttEpochs |-> [k \in {} |-> 0]])

NoContainer == Container("none", "ra", FALSE, 0, NoPayload, FALSE, 0, << >>)

\* nil, nil
NoParse ==
  [err |-> "", isNil |-> TRUE, parsedBy |-> "", status |-> 0, canonical |-> FALSE,
   blockRoot |-> "", slot |-> 0, syncAggregate |-> FALSE,
   executionPayload |-> [isNil |-> TRUE, parentHash |-> "", transactions |-> << >>,
                         withdrawals |-> [isNil |-> TRUE, items |-> << >>]],
   blsChanges |-> [isNil |-> TRUE, len |-> 0], attestations |-> << >>]

\* nil, nil of GetBlockStatusByEpoch, asked nothing.
NoStatus == [err |-> FALSE, blocks |-> << >>, asked |-> << >>]

\* A container arrived, in the set C, with GetEpochAssignments answering as
\* one of L says, and parseRpcBlock has not run.
ParseStart(C, L) ==
  /\ ppc = "wire"
  /\ container \in C
  /\ lookup \in L
  /\ parsed = NoParse
  /\ canon = NoStatus

ParseAtRest == ParseStart({NoContainer}, {OkAnswer})

\* Width of the slot arithmetic.  The program converts the uint64 slot to
\* int64; the model keeps the conversion and the wrap-around with words of
\* SlotBits bits, far above the offsets of the reference slots.
SlotBits == 20

SlotModulus == 2 ^ SlotBits

SlotHalf == 2 ^ (SlotBits - 1)

\* The offset of slot1d (lines 265, 1435); slot7d and slot31d are 7 and 31
\* times as far back.
SlotsPerDay == 7200

SnapCallers == {"g1", "g2"}

\* The fan-out tasks of a call, by the slot they look up (lines 288-352).
Tasks == {"now", "1d", "7d", "31d"}

\* The seven result maps of a call (lines 279-285).
ResultMaps ==
  { "validatorBalances1d", "validatorBalances7d", "validatorBalances31d",
    "validatorWithdrawal", "validatorWithdrawal1d", "validatorWithdrawal7d",
    "validatorWithdrawal31d" }

\* A result map: nil, empty or with the values of the validators; the tasks
\* that assigned it; whether the lookup that assigned it failed.
ResultMap(val, by, failed) == [val |-> val, by |-> by, failed |-> failed]

\* A run of the snapshot calls: who calls, which of GetSlotData ("slot") and
\* GetEpochData ("epoch"), with which block slots or epochs, whether the
\* blocks carry withdrawals, and whether the lookups can fail.
SnapRun(callers, kinds, slots, epochs, withdrawals, faults) ==
  [callers |-> callers, kinds |-> kinds, slots |-> slots, epochs |-> epochs,
   withdrawals |-> withdrawals, faults |-> faults]

\* Slots around the offsets of the reference slots and around the largest
\* slot the signed word holds.
WideSlots ==
  { 0, SlotsPerDay - 1, SlotsPerDay, SlotsPerDay + 1, 7 * SlotsPerDay, 7 * SlotsPerDay + 1,
    31 * SlotsPerDay, 31 * SlotsPerDay + 1, SlotHalf - 1, SlotHalf,
    SlotHalf + SlotsPerDay - 1, SlotHalf + SlotsPerDay, SlotHalf + 7 * SlotsPerDay,
    SlotHalf + 31 * SlotsPerDay, SlotModulus - 1 }

SnapRuns ==
  { SnapRun(SnapCallers, {"slot"}, {5, 10}, {}, {FALSE}, FALSE),
    SnapRun({"g1"}, {"slot"}, {10}, {}, BOOLEAN, TRUE),
    SnapRun({"g1"}, {"slot"}, WideSlots, {}, {FALSE}, FALSE),
    SnapRun({"g1"}, {"slot", "epoch"}, {40}, {1}, BOOLEAN, TRUE) }

NoSnap ==
  [state |-> "none", zero |-> {}, pending |-> {}, blocks |-> {}, proposers |-> << >>,
   held |-> << >>, now |-> 0, added |-> FALSE]

\* The package after its initialisation (line 45) in one of the runs R: no
\* call is running.
SnapStart(R) ==
  /\ PrysmLatestHeadSlot = 0
  /\ snapRun \in R
  /\ gpc = [c \in SnapCallers |-> "idle"]
  /\ garg = [c \in SnapCallers |-> [kind |-> "slot", slot |-> 0, epoch |-> 0, wd |-> FALSE]]
  /\ refs = [c \in SnapCallers |-> [slot1d |-> 0, slot7d |-> 0, slot31d |-> 0]]
  /\ task = [c \in SnapCallers |-> [t \in Tasks |-> "done"]]
  /\ results = [c \in SnapCallers |-> [v \in ResultMaps |-> ResultMap("nil", {}, FALSE)]]
  /\ snap = [c \in SnapCallers |-> NoSnap]

SnapAtRest == SnapStart({SnapRun({}, {}, {}, {}, {}, FALSE)})

eth1DepositContractFirstBlock == scenario.first

NoFetch ==
  [from |-> 0, to |-> 0, keys |-> {}, err |-> NoErr, panicked |-> FALSE, decoded |-> 0,
   batchCalls |-> 0, elems |-> << >>, subErr |-> FALSE]

FetchRecord(from, to, keys, res) ==
  [from |-> from, to |-> to, keys |-> keys, err |-> res.err, panicked |-> res.panicked,
   decoded |-> res.decoded, batchCalls |-> res.batchCalls, elems |-> res.elems,
   subErr |-> res.subErr]

\* The exporter before its first cycle, in one of the runs S.
ExporterInit(S) ==
  /\ pc = "loop"
  /\ lastFetchedBlock = 0
  /\ lastDepositBlock = 0
  /\ blockHeight = 0
  /\ fromBlock = 0
  /\ toBlock = 0
  /\ depositsToSave = << >>
  /\ store = {}
  /\ scenario \in S
  /\ outcome = "none"
  /\ fromBase = 0
  /\ fetchCalls = 0
  /\ firstFetch = NoFetch
  /\ lastFetch = NoFetch
  /\ saveCalls = 0
  /\ saveFault = <<"none", 0>>
  /\ startLFB = 0
  /\ synced = FALSE
  /\ syncedHead = 0
  /\ storeBefore = {}

Init ==
  /\ ExporterInit(Scenarios)
  /\ StreamAtRest
  /\ CacheAtRest
  /\ SnapAtRest
  /\ ParseAtRest

\* "time.Sleep(...); continue" and the end of the loop body: the loop goes
\* round with the lastFetchedBlock the action leaves.
EndCycle(how) ==
  /\ pc' = "loop"
  /\ outcome' = how

\* The locals of a new iteration (lines 61-99).
FreshIteration ==
  /\ blockHeight' = 0 /\ fromBlock' = 0 /\ toBlock' = 0 /\ fromBase' = 0
  /\ depositsToSave' = << >>
  /\ fetchCalls' = 0 /\ saveCalls' = 0 /\ saveFault' = <<"none", 0>>
  /\ firstFetch' = NoFetch /\ lastFetch' = NoFetch
  /\ startLFB' = lastFetchedBlock
  /\ storeBefore' = store

\* Line 62 succeeds.
ReadStore ==
  /\ pc = "loop"
  /\ pc' = "head"
  /\ lastDepositBlock' = MaxBlockNumber(store)
  /\ FreshIteration
  /\ UNCHANGED <<lastFetchedBlock, store, scenario, outcome, synced, syncedHead>>
  /\ UNCHANGED <<streamVars, cacheVars, parseVars, snapVars>>

\* Line 62 fails (lines 63-67).
ReadStoreFails ==
  /\ pc = "loop"
  /\ EndCycle("storeErr")
  /\ lastDepositBlock' = 0
  /\ FreshIteration
  /\ UNCHANGED <<lastFetchedBlock, store, scenario, synced, syncedHead>>
  /\ UNCHANGED <<streamVars, cacheVars, parseVars, snapVars>>

\* Line 68 fails (lines 69-73).
ReadHeadFails ==
  /\ pc = "head"
  /\ EndCycle("headErr")
  /\ UNCHANGED <<lastFetchedBlock, lastDepositBlock, blockHeight, fromBlock, toBlock,
                 depositsToSave, store, scenario, fromBase, fetchCalls, firstFetch,
                 lastFetch, saveCalls, saveFault, startLFB, synced, syncedHead,
                 storeBefore>>
  /\ UNCHANGED <<streamVars, cacheVars, parseVars, snapVars>>

\* Lines 68-97: the head is read and the range is chosen.
ReadHead ==
  /\ pc = "head"
  /\ \E h \in scenario.heads :
       LET base == FromBlockBase(lastDepositBlock, lastFetchedBlock,
                                 eth1DepositContractFirstBlock)
           to   == CapToBlock(base, h)
       IN  /\ blockHeight' = h
           /\ fromBase' = base
           /\ toBlock' = to
           /\ fromBlock' = LookBackFrom(base, to)
  /\ pc' = "fetch"
  /\ UNCHANGED <<lastFetchedBlock, lastDepositBlock, depositsToSave, store, scenario,
                 outcome, fetchCalls, firstFetch, lastFetch, saveCalls, saveFault,
                 startLFB, synced, syncedHead, storeBefore>>
  /\ UNCHANGED <<streamVars, cacheVars, parseVars, snapVars>>

\* What follows one call of fetchEth1Deposits with result res (lines 99-114);
\* retry says whether a too-large error is followed by the narrowed retry.
AfterFetch(keys, res, retry) ==
  /\ fetchCalls' = fetchCalls + 1
  /\ lastFetch' = FetchRecord(fromBlock, toBlock, keys, res)
  /\ firstFetch' = IF fetchCalls = 0 THEN FetchRecord(fromBlock, toBlock, keys, res)
                   ELSE firstFetch
  /\ depositsToSave' = res.deposits
  /\ IF res.panicked
     THEN /\ pc' = "crashed"
          /\ UNCHANGED <<toBlock, outcome>>
     ELSE IF res.err = NoErr
     THEN /\ pc' = "save"
          /\ UNCHANGED <<toBlock, outcome>>
     ELSE IF retry /\ IsTooLarge(res.err)
     THEN /\ pc' = "retry"
          /\ toBlock' = NarrowToBlock(fromBlock, blockHeight)
          /\ UNCHANGED outcome
     ELSE /\ EndCycle("fetchErr")
          /\ UNCHANGED toBlock
  /\ UNCHANGED <<lastFetchedBlock, lastDepositBlock, blockHeight, fromBlock, store,
                 scenario, fromBase, saveCalls, saveFault, startLFB, synced, syncedHead,
                 storeBefore>>
  /\ UNCHANGED <<streamVars, cacheVars, parseVars, snapVars>>

\* One call fetchEth1Deposits(fromBlock, toBlock) against the run's chain.
CallFetch(retry) ==
  \/ \E e \in ProviderErrors(scenario) : AfterFetch({}, FetchFailedEarly(e), retry)
  \/ \E logs \in Responses(scenario, fromBlock, toBlock) :
       LET dec == DecodeLogs(logs)
           n   == Len(dec.deposits)
       IN  \E r \in IF dec.unpackErr \/ n = 0 THEN {NoReply}
                    ELSE BatchReplies(scenario, n, n, Range(dec.txsToFetch)) :
             AfterFetch(DepositKeys(logs), fetchEth1Deposits(logs, r), retry)

\* Lines 99-106, the first call of the cycle.
Fetch ==
  /\ pc = "fetch"
  /\ CallFetch(TRUE)

\* Lines 107-113, the narrowed retry.
FetchNarrowed ==
  /\ pc = "retry"
  /\ CallFetch(FALSE)

NextLastFetched_Always(err, lastFetched, to) == to

\* lastFetchedBlock after saveEth1Deposits returned err (lines 116-124).
NextLastFetched(err, lastFetched, to) == IF err # NoErr THEN lastFetched ELSE to

\* Lines 116-138.
Save ==
  /\ pc = "save"
  /\ \E fault \in SaveFaults(depositsToSave) :
       LET r == saveEth1Deposits(store, depositsToSave, fault)
       IN  /\ store' = r.store
           /\ saveFault' = fault
           /\ lastFetchedBlock' = NextLastFetched(r.err, lastFetchedBlock, toBlock)
           /\ IF r.err # NoErr
              THEN /\ EndCycle("saveErr")
                   /\ UNCHANGED <<synced, syncedHead>>
              ELSE /\ EndCycle("ok")
                   /\ synced' = (blockHeight = toBlock)
                   /\ syncedHead' = blockHeight
  /\ saveCalls' = saveCalls + 1
  /\ storeBefore' = store
  /\ UNCHANGED <<lastDepositBlock, blockHeight, fromBlock, toBlock, depositsToSave,
                 scenario, fromBase, fetchCalls, firstFetch, lastFetch, startLFB>>
  /\ UNCHANGED <<streamVars, cacheVars, parseVars, snapVars>>

Next ==
  \/ ReadStore
  \/ ReadStoreFails
  \/ ReadHeadFails
  \/ ReadHead
  \/ Fetch
  \/ FetchNarrowed
  \/ Save

Spec == Init /\ [][Next]_vars

\* Runs in which the execution client reports one head height for ever: far
\* above eth1DepositContractFirstBlock, so that the scanner catches up in
\* batches on a chain without deposits, and equal to it.
FixedHeadRuns ==
  { Run(100, {2500}, {}, {}, {}, {"to"}, FALSE, FALSE, {"plain", "results"}),
    Run(100, {100},  {"t1"}, {0}, {FALSE}, {"to"}, FALSE, FALSE, {"plain"}) }

\* A row of eth1_deposits saved by an earlier process, at block b.
StoredRow(b) ==
  [txHash |-> "t2", blockNumber |-> b, index |-> 1, removed |-> FALSE,
   validSignature |-> TRUE, blockTs |-> HeaderTime(b), fromAddress |-> SenderOf("t2")]

\* What eth1_deposits can hold when the exporter starts: nothing, or a row
\* below, or a row above, the head.
StoresAtStart == { {}, {StoredRow(300)}, {StoredRow(3000)} }

\* The exporter started on a table that earlier processes filled.
LiveInit ==
  /\ pc = "loop"
  /\ lastFetchedBlock = 0
  /\ lastDepositBlock = 0
  /\ blockHeight = 0
  /\ fromBlock = 0
  /\ toBlock = 0
  /\ depositsToSave = << >>
  /\ store \in StoresAtStart
  /\ scenario \in FixedHeadRuns
  /\ outcome = "none"
  /\ fromBase = 0
  /\ fetchCalls = 0
  /\ firstFetch = NoFetch
  /\ lastFetch = NoFetch
  /\ saveCalls = 0
  /\ saveFault = <<"none", 0>>
  /\ startLFB = 0
  /\ synced = FALSE
  /\ syncedHead = 0
  /\ storeBefore = store
  /\ StreamAtRest
  /\ CacheAtRest
  /\ SnapAtRest
  /\ ParseAtRest

\* The loop of line 58 never ends, and the store, the execution client and
\* the provider answer without an error again and again: the reads of lines
\* 62 and 68, a call of fetchEth1Deposits and a call of saveEth1Deposits.
LiveFairness ==
  /\ WF_vars(Next)
  /\ SF_vars(ReadHead)
  /\ SF_vars(Fetch /\ pc' = "save")
  /\ SF_vars(Save /\ outcome' = "ok")

LiveSpec == LiveInit /\ [][Next]_vars /\ LiveFairness

(* ------------------------------------------------------------------ *)
(* Properties of the scan loop                                         *)
(* ------------------------------------------------------------------ *)

ErrorOutcomes == {"storeErr", "headErr", "fetchErr", "saveErr"}

InCycle == pc \in {"head", "fetch", "retry", "save", "crashed"}

\* C1: lastFetchedBlock keeps the value it had at the start of the cycle while
\* the cycle runs and when the cycle ends with a store-read, head-read, fetch
\* or save error; it differs from that value only after a cycle whose last
\* fetch call and whose save both succeeded, and it is then the cycle's toBlock.
C1_ProgressOnlyAfterFetchAndSave ==
  /\ InCycle => lastFetchedBlock = startLFB
  /\ (pc = "loop" /\ outcome \in ErrorOutcomes) => lastFetchedBlock = startLFB
  /\ (pc = "loop" /\ lastFetchedBlock # startLFB) =>
        /\ outcome = "ok"
        /\ fetchCalls >= 1
        /\ lastFetch.err = NoErr
        /\ saveCalls = 1
        /\ saveFault[1] = "none"
        /\ lastFetchedBlock = toBlock

\* A cycle ended with a save error after an earlier cycle had made progress.
C1_Witness ==
  /\ pc = "loop"
  /\ outcome = "saveErr"
  /\ startLFB > 0
  /\ toBlock # lastFetchedBlock

\* C2: when the range has been chosen, fromBlock before the look-back branch is
\* max(lastPersisted+1, lastFetched+1, contractFirstBlock); when the head is
\* more than 1000 blocks beyond it the requested range is
\* [fromBlock, min(fromBlock+1000, head)]; 500/500/100/2000 gives [501, 1501].
C2_RangeSelection ==
  pc = "fetch" =>
    LET m == Max(Max(lastDepositBlock + 1, lastFetchedBlock + 1), scenario.first)
    IN  /\ fromBase = m
        /\ (blockHeight - m > 1000) =>
              /\ fromBlock = m
              /\ toBlock = Min(m + 1000, blockHeight)
        /\ (lastDepositBlock = 500 /\ lastFetchedBlock = 500 /\ scenario.first = 100
              /\ blockHeight = 2000) =>
              (fromBlock = 501 /\ toBlock = 1501)

\* The example of the range selection is reached.
C2_Witness ==
  /\ pc = "fetch"
  /\ lastDepositBlock = 500 /\ lastFetchedBlock = 500 /\ scenario.first = 100
  /\ blockHeight = 2000
  /\ fromBlock = 501 /\ toBlock = 1501

\* The look-back branch replaced fromBlock in the current cycle.
LookBackReplaced == fromBlock # fromBase

\* The remaining distance toBlock - fromBlock as the unsigned subtraction of
\* line 95 gives it.
RemainingDistance == (toBlock - fromBase + Modulus) % Modulus

C4_SyncedRescansLookBack ==
  (pc = "fetch" /\ synced /\ blockHeight = syncedHead /\ blockHeight > eth1LookBack) =>
     (fromBlock = blockHeight - eth1LookBack /\ toBlock = blockHeight)

\* C5: a cycle calls fetchEth1Deposits at most twice; the second call happens
\* only after a first call whose error text matches one of the two patterns,
\* with the range [fromBlock, min(fromBlock+100, head)]; when the second call
\* fails too, or the first error is of another kind, the cycle ends without a
\* call of saveEth1Deposits.
C5_OneNarrowedRetry ==
  LET matches(e) == e.cause \in { "query returned more than 10000 results",
                                  "413 Request Entity Too Large" }
  IN  /\ fetchCalls <= 2
      /\ (pc = "retry" \/ fetchCalls = 2) =>
            /\ firstFetch.err # NoErr
            /\ matches(firstFetch.err)
      /\ pc = "retry" =>
            /\ fetchCalls = 1
            /\ fromBlock = firstFetch.from
            /\ toBlock = Min(firstFetch.from + 100, blockHeight)
      /\ fetchCalls = 2 =>
            /\ lastFetch.from = firstFetch.from
            /\ lastFetch.to = Min(firstFetch.from + 100, blockHeight)
      /\ (fetchCalls = 1 /\ firstFetch.err # NoErr /\ ~matches(firstFetch.err)) =>
            (pc = "loop" /\ outcome = "fetchErr" /\ saveCalls = 0)
      /\ (fetchCalls = 2 /\ lastFetch.err # NoErr) =>
            (pc = "loop" /\ outcome = "fetchErr" /\ saveCalls = 0)

\* A cycle ended after a narrowed retry that failed as well.
C5_Witness ==
  /\ pc = "loop" /\ outcome = "fetchErr"
  /\ fetchCalls = 2
  /\ lastFetch.to < firstFetch.to
  /\ lastFetch.err # NoErr
  /\ saveCalls = 0

\* The ranges of the current cycle: the one about to be requested and the
\* ones fetchEth1Deposits was called with.
CycleRanges ==
  (IF pc \in {"fetch", "retry"} THEN { <<fromBlock, toBlock>> } ELSE {})
  \cup (IF fetchCalls > 0
        THEN { <<firstFetch.from, firstFetch.to>>, <<lastFetch.from, lastFetch.to>> }
        ELSE {})

\* C28: every range passed to the log filter, by the first attempt and by the
\* narrowed retry, ends at or below the head read in the cycle and at most
\* 1000 blocks after its start.
C28_RangeWithinHeadAndBatch ==
  \A r \in CycleRanges :
    /\ r[2] <= blockHeight
    /\ r[2] <= r[1] + eth1MaxFetch

\* A cycle whose first attempt asked for the blocks up to the head and whose
\* retry asked for 100.
C28_Witness ==
  /\ fetchCalls = 2
  /\ firstFetch.to = blockHeight
  /\ firstFetch.to > firstFetch.from + RetryStep
  /\ lastFetch.from = firstFetch.from
  /\ lastFetch.to = lastFetch.from + RetryStep

\* C31: every range passed to fetchEth1Deposits has fromBlock <= toBlock.
C31_RangeNotInverted == \A r \in CycleRanges : r[1] <= r[2]

\* C32: lastFetchedBlock never decreases, whatever heads the execution client
\* reports.
C32_LastFetchedNeverDecreases == [][lastFetchedBlock' >= lastFetchedBlock]_vars

\* C33: every range passed to fetchEth1Deposits starts at or after
\* eth1DepositContractFirstBlock, the look-back branch included.
C33_RangeStartsAtFirstBlock ==
  \A r \in CycleRanges : r[1] >= eth1DepositContractFirstBlock

\* The head height of a run whose head stays fixed.
FixedHead == IF scenario.heads = {} THEN 0 ELSE CHOOSE h \in scenario.heads : TRUE

\* C34: with the head fixed at H >= eth1DepositContractFirstBlock and reads,
\* fetches and saves that succeed again and again, a cycle eventually
\* completes with toBlock = lastFetchedBlock = H, whatever the table held at
\* the start; and every successful cycle that starts with lastFetchedBlock
\* below H ends with a greater lastFetchedBlock.
C34_CatchesUpToFixedHead ==
  /\ <>(/\ pc = "loop" /\ outcome = "ok"
        /\ toBlock = FixedHead /\ lastFetchedBlock = FixedHead)
  /\ [][(pc = "save" /\ pc' = "loop" /\ outcome' = "ok" /\ lastFetchedBlock < FixedHead)
          => lastFetchedBlock' > lastFetchedBlock]_vars

\* The cycle that reached the head 2500 after two batches of 1000 blocks.
C34_Witness ==
  /\ pc = "loop" /\ outcome = "ok"
  /\ scenario.heads = {2500}
  /\ startLFB = 2101
  /\ toBlock = 2500 /\ lastFetchedBlock = 2500

(* ------------------------------------------------------------------ *)
(* Properties of fetchEth1Deposits and the batched request             *)
(* ------------------------------------------------------------------ *)

\* The latest call of fetchEth1Deposits returned (it did not end the process).
FetchReturned == fetchCalls >= 1 /\ ~lastFetch.panicked

HeaderElems(elems) == { i \in 1..Len(elems) : elems[i].method = "eth_getBlockByNumber" }

TxElems(elems) == { i \in 1..Len(elems) : elems[i].method = "eth_getTransactionByHash" }

\* C6: when a sub-response of the batched request carried an error, the call
\* of fetchEth1Deposits fails, and the cycle does not go on to save deposits.
C6_SubResponseErrorAborts ==
  (FetchReturned /\ lastFetch.subErr) =>
     /\ lastFetch.err # NoErr
     /\ pc # "save"
     /\ saveCalls = 0

\* C7 (as claimed): the batched request carries exactly one header sub-request
\* per distinct block number and one transaction sub-request per distinct
\* transaction hash of the decoded deposits.
C7_OneSubRequestPerDistinctItem ==
  (fetchCalls >= 1 /\ lastFetch.batchCalls = 1) =>
     /\ Cardinality(HeaderElems(lastFetch.elems))
          = Cardinality({ depositsToSave[i].blockNumber : i \in 1..Len(depositsToSave) })
     /\ Cardinality(TxElems(lastFetch.elems))
          = Cardinality({ depositsToSave[i].txHash : i \in 1..Len(depositsToSave) })

\* C7 (amended): the batched request carries one header sub-request and one
\* transaction sub-request per decoded deposit, in decoding order, headers
\* first; a block or transaction shared by k deposits is requested k times,
\* and nothing else is requested.
C7_OneSubRequestPerDeposit ==
  (fetchCalls >= 1 /\ lastFetch.batchCalls = 1) =>
     LET n == Len(depositsToSave)
         e == lastFetch.elems
     IN  /\ Len(e) = 2 * n
         /\ \A i \in 1..n :
              /\ e[i] = [method |-> "eth_getBlockByNumber",
                         arg |-> depositsToSave[i].blockNumber]
              /\ e[n + i] = [method |-> "eth_getTransactionByHash",
                             arg |-> depositsToSave[i].txHash]

\* A batched request was sent for two deposits of one transaction.
C7_Witness ==
  /\ fetchCalls >= 1 /\ lastFetch.batchCalls = 1
  /\ Len(depositsToSave) = 2
  /\ depositsToSave[1].txHash = depositsToSave[2].txHash
  /\ depositsToSave[1].blockNumber = depositsToSave[2].blockNumber
  /\ Len(lastFetch.elems) = 4

\* C8 (as claimed): a call that decodes at least one deposit makes exactly one
\* batched round trip, and a call that decodes none makes none.
C8_OneRoundTripIffDecoded ==
  fetchCalls >= 1 =>
     lastFetch.batchCalls = (IF lastFetch.decoded >= 1 THEN 1 ELSE 0)

\* The latest call returned at line 210, on a log whose data did not unpack.
UnpackAborted == lastFetch.err.prefix = "error unpacking eth1-deposit-log"

\* C8 (amended): a call that decodes every deposit log of the response and at
\* least one deposit makes exactly one batched round trip, which carries all
\* header and transaction sub-requests; a call that decodes no deposit, or
\* that stops at a log whose data does not unpack, makes none.
C8_OneRoundTripIffDecodingCompleted ==
  fetchCalls >= 1 =>
     /\ lastFetch.batchCalls
          = (IF lastFetch.decoded >= 1 /\ ~UnpackAborted THEN 1 ELSE 0)
     /\ lastFetch.batchCalls = 1 => Len(lastFetch.elems) = 2 * lastFetch.decoded

\* A call decoded two deposits and made its one round trip.
C8_Witness ==
  /\ fetchCalls >= 1
  /\ lastFetch.decoded = 2
  /\ lastFetch.batchCalls = 1
  /\ Len(lastFetch.elems) = 4

\* C9: every deposit log of a response whose call returned without error is
\* among the returned deposits, with validSignature = FALSE when its signature
\* does not verify; and after a successful cycle the store holds, for the key
\* of each such log, a row with valid_signature = FALSE.
C9_InvalidSignatureKept ==
  /\ (FetchReturned /\ lastFetch.err = NoErr) =>
        \A k \in lastFetch.keys :
          \E i \in 1..Len(depositsToSave) :
            /\ KeyOf(depositsToSave[i]) = k
            /\ depositsToSave[i].validSignature = (k \notin BadSignatureKeys)
  /\ (pc = "loop" /\ outcome = "ok") =>
        \A k \in lastFetch.keys \cap BadSignatureKeys :
          \E r \in store : KeyOf(r) = k /\ ~r.validSignature

\* A cycle succeeded whose response held a deposit with a bad signature next
\* to one with a good signature.
C9_Witness ==
  /\ pc = "loop" /\ outcome = "ok"
  /\ lastFetch.keys \cap BadSignatureKeys # {}
  /\ lastFetch.keys \ BadSignatureKeys # {}
  /\ \E r \in store : ~r.validSignature

\* C10: a call of saveEth1Deposits that fails, at an insert or at the commit,
\* leaves the store as it was before the call.
C10_SaveAllOrNothing ==
  [][(pc = "save" /\ outcome' = "saveErr") => store' = store]_vars

\* The second insert of a batch failed after the first one had been executed,
\* in a store that already held rows.
C10_Witness ==
  /\ pc = "loop" /\ outcome = "saveErr"
  /\ saveFault = <<"exec", 2>>
  /\ Len(depositsToSave) = 2
  /\ store # {}
  /\ \E r \in store : KeyOf(r) = KeyOf(depositsToSave[1]) /\ r # depositsToSave[1]

(* ------------------------------------------------------------------ *)
(* Properties of the eth1_deposits table                                *)
(* ------------------------------------------------------------------ *)

RECURSIVE SaveTimes(_, _, _)
\* The table after n successful calls of saveEth1Deposits with one batch.
SaveTimes(rows, batch, n) ==
  IF n = 0 THEN rows
  ELSE saveEth1Deposits(SaveTimes(rows, batch, n - 1), batch, <<"none", 0>>).store

UniqueKeys(rows) == \A r1, r2 \in rows : KeyOf(r1) = KeyOf(r2) => r1 = r2

\* C11: the table never holds two rows with one (tx hash, merkle-tree index)
\* key; and for the batch of every cycle, saving it two or three times gives
\* the table that saving it once gives, which is the table the program's one
\* successful save leaves.
C11_SaveIdempotent ==
  /\ UniqueKeys(store)
  /\ (pc = "save" \/ (pc = "loop" /\ outcome = "ok")) =>
        LET before == IF pc = "save" THEN store ELSE storeBefore
            once   == SaveTimes(before, depositsToSave, 1)
        IN  /\ SaveTimes(before, depositsToSave, 2) = once
            /\ SaveTimes(before, depositsToSave, 3) = once
            /\ UniqueKeys(once)
            /\ (pc = "loop") => (store = once /\ SaveTimes(store, depositsToSave, 1) = store)

\* A successful save re-ingested a key that the table already held, with
\* other field values than the stored row had.
C11_Witness ==
  /\ pc = "loop" /\ outcome = "ok"
  /\ \E i \in 1..Len(depositsToSave) :
       \E r \in storeBefore :
         /\ KeyOf(r) = KeyOf(depositsToSave[i])
         /\ r # depositsToSave[i]
         /\ depositsToSave[i] \in store
         /\ r \notin store

ParseError(e) == [NoParse EXCEPT !.err = e]

PayloadTaken_Present(payload) == payload.present

\* The condition of lines 944 and 1155: the payload is not nil and its
\* ParentHash is not 32 zero bytes.
PayloadTaken(payload) == payload.present /\ payload.parentHash # "zero"

\* Position of the first transaction that fails at UnmarshalBinary or at
\* signer.Sender (0: none), lines 946-974 and 1157-1185.
FirstFailingTx(txs) ==
  LET bad == { i \in 1..Len(txs) : txs[i] # "ok" }
  IN  IF bad = {} THEN 0 ELSE CHOOSE i \in bad : \A j \in bad : i <= j

TxError(kind) ==
  IF kind = "undecodable" THEN "error parsing tx" ELSE "transaction with invalid sender"

ConvertWithdrawals_Reversed(ws, slot, root) ==
  [i \in 1..Len(ws) |->
     [slot |-> slot, blockRoot |-> root, index |-> ws[Len(ws) + 1 - i].index,
      validatorIndex |-> ws[Len(ws) + 1 - i].validatorIndex,
      address |-> ws[Len(ws) + 1 - i].address, amount |-> ws[Len(ws) + 1 - i].amount]]

\* The loop of lines 1187-1197.
ConvertWithdrawals(ws, slot, root) ==
  [i \in 1..Len(ws) |->
     [slot |-> slot, blockRoot |-> root, index |-> ws[i].index,
      validatorIndex |-> ws[i].validatorIndex, address |-> ws[i].address,
      amount |-> ws[i].amount]]

\* b.ExecutionPayload when the payload is not taken (it stays nil).
NilExecutionPayload ==
  [isNil |-> TRUE, parentHash |-> "", transactions |-> << >>,
   withdrawals |-> [isNil |-> TRUE, items |-> << >>]]

\* b.ExecutionPayload of lines 976-992 (Withdrawals: nil) and of lines
\* 1199-1215 (Withdrawals: the converted records).
ExecutionPayloadOf(payload, withdrawals) ==
  [isNil |-> FALSE, parentHash |-> payload.parentHash,
   transactions |-> [i \in 1..Len(payload.transactions) |-> "tx"],
   withdrawals |-> withdrawals]

Attesters_EveryBit(att, attestors, i) ==
  [n \in 1..Len(att.aggregationBits) |->
     LET key == AttestorKey(att.slot, att.committeeIndex, n - 1)
     IN  IF key \in DOMAIN attestors THEN attestors[key] ELSE 0]

RECURSIVE Attesters(_, _, _)
\* The loop of lines 728-737 from position i on: the validator assigned at
\* each set bit, 0 where the assignments have none.
Attesters(att, attestors, i) ==
  IF i >= Len(att.aggregationBits) THEN << >>
  ELSE LET key == AttestorKey(att.slot, att.committeeIndex, i)
           validator == IF key \in DOMAIN attestors THEN attestors[key] ELSE 0
       IN  (IF att.aggregationBits[i + 1] THEN << validator >> ELSE << >>)
           \o Attesters(att, attestors, i + 1)

\* Lines 702-739: each attestation with the attesters its bits name in the
\* assignments of the epoch of its slot.
ConvertAttestations(atts, answer) ==
  [n \in 1..Len(atts) |->
     [slot |-> atts[n].slot, committeeIndex |-> atts[n].committeeIndex,
      aggregationBits |-> atts[n].aggregationBits,
      attesters |-> Attesters(atts[n], answer.attestors[atts[n].slot \div SlotsPerEpoch], 0)]]

\* The types.Block a conversion returns: Status 1, Canonical and BlockRoot of
\* the container, the slot of the populated block.
BlockOf(by, block, sync, payload, changes, answer) ==
  [err |-> "", isNil |-> FALSE, parsedBy |-> by, status |-> 1,
   canonical |-> block.canonical, blockRoot |-> block.blockRoot, slot |-> block.slot,
   syncAggregate |-> sync, executionPayload |-> payload, blsChanges |-> changes,
   attestations |-> ConvertAttestations(block.attestations, answer)]

\* The attestation loop asks GetEpochAssignments and fails when it does
\* (lines 722-725, 877-880, 1083-1086, 1310-1313).
AssignmentsFail(block, answer) == Len(block.attestations) > 0 /\ answer.err

parsePhase0Block(block, answer) ==
  IF block.variant # "phase0" THEN ParseError("failed getting phase0 block")
  ELSE IF AssignmentsFail(block, answer) THEN ParseError("error receiving epoch assignment")
  ELSE BlockOf("parsePhase0Block", block, FALSE, NilExecutionPayload,
               [isNil |-> TRUE, len |-> 0], answer)

parseAltairBlock(block, answer) ==
  IF block.variant # "altair" THEN ParseError("failed getting altair block")
  ELSE IF AssignmentsFail(block, answer) THEN ParseError("error receiving epoch assignment")
  ELSE BlockOf("parseAltairBlock", block, block.syncAggregate, NilExecutionPayload,
               [isNil |-> TRUE, len |-> 0], answer)

parseBellatrixBlock(block, answer) ==
  LET payload == block.payload
      k       == FirstFailingTx(payload.transactions)
  IN  IF block.variant # "bellatrix" THEN ParseError("failed getting bellatrix block")
      ELSE IF PayloadTaken(payload) /\ k # 0
      THEN ParseError(TxError(payload.transactions[k]))
      ELSE IF AssignmentsFail(block, answer)
      THEN ParseError("error receiving epoch assignment")
      ELSE BlockOf("parseBellatrixBlock", block, block.syncAggregate,
                   IF PayloadTaken(payload)
                   THEN ExecutionPayloadOf(payload, [isNil |-> TRUE, items |-> << >>])
                   ELSE NilExecutionPayload,
                   [isNil |-> TRUE, len |-> 0], answer)

parseCapellaBlock(block, answer) ==
  LET payload == block.payload
      k       == FirstFailingTx(payload.transactions)
  IN  IF block.variant # "capella" THEN ParseError("failed getting capella block")
      ELSE IF PayloadTaken(payload) /\ k # 0
      THEN ParseError(TxError(payload.transactions[k]))
      ELSE IF AssignmentsFail(block, answer)
      THEN ParseError("error receiving epoch assignment")
      ELSE BlockOf("parseCapellaBlock", block, block.syncAggregate,
                   IF PayloadTaken(payload)
                   THEN ExecutionPayloadOf(payload,
                          [isNil |-> FALSE,
                           items |-> ConvertWithdrawals(payload.withdrawals, block.slot,
                                                        block.blockRoot)])
                   ELSE NilExecutionPayload,
                   [isNil |-> FALSE, len |-> block.blsChanges], answer)

parseRpcBlock_Phase0Only(block, answer) ==
  IF block.variant = "none"
  THEN ParseError("block is neither phase0 nor altair nor bellatrix nor capella")
  ELSE parsePhase0Block([block EXCEPT !.variant = "phase0"], answer)

\* Lines 595-613.
parseRpcBlock(block, answer) ==
  IF block.variant = "phase0" THEN parsePhase0Block(block, answer)
  ELSE IF block.variant = "altair" THEN parseAltairBlock(block, answer)
  ELSE IF block.variant = "bellatrix" THEN parseBellatrixBlock(block, answer)
  ELSE IF block.variant = "capella" THEN parseCapellaBlock(block, answer)
  ELSE ParseError("block is neither phase0 nor altair nor bellatrix nor capella")

(* The containers of the conversion's specification. *)

ParseSlots == {0, 33}

TxLists == UNION { [1..k -> TxKinds] : k \in 0..MaxTxs }

WithdrawalLists == UNION { [1..k -> WireWithdrawals] : k \in 0..MaxWithdrawals }

\* What the wire type of each variant can carry: a phase0 block has no sync
\* aggregate and no payload, an altair block no payload, a bellatrix payload
\* no withdrawals, and only a capella body has BLS-to-execution changes.
Shapes ==
  { <<"none", NoPayload, FALSE, 0>>, <<"phase0", NoPayload, FALSE, 0>> }
  \cup { <<"altair", NoPayload, sync, 0>> : sync \in BOOLEAN }
  \cup { <<"bellatrix", p, sync, 0>> :
           p \in {NoPayload, EmptyPayload} \cup { SetPayload(txs, << >>) : txs \in TxLists },
           sync \in BOOLEAN }
  \cup { <<"capella", p, sync, n>> :
           p \in {NoPayload, EmptyPayload}
                 \cup { SetPayload(txs, ws) : txs \in TxLists, ws \in WithdrawalLists },
           sync \in BOOLEAN, n \in 0..MaxChanges }

ParseContainers ==
  { Container(sh[1], root, canonical, slot, sh[2], sh[3], sh[4], atts) :
      sh \in Shapes, root \in Roots, canonical \in BOOLEAN, slot \in ParseSlots,
      atts \in {<< >>, << PlainAttestation >>} }

BitLists == UNION { [1..k -> BOOLEAN] : k \in 0..MaxBits }

WireAttestations ==
  { WireAttestation(e * SlotsPerEpoch + 1, c, bits) :
      e \in AttEpochs, c \in {0, 1}, bits \in BitLists }

\* Containers of every variant with up to two attestations, and the answers
\* GetEpochAssignments can give for their epochs.
AttestationContainers ==
  { Container(v, "ra", TRUE, 65, NoPayload, FALSE, 0, atts) :
      v \in {"phase0", "altair", "bellatrix", "capella"},
      atts \in { << a >> : a \in WireAttestations }
                \cup { << PlainAttestation, a >> : a \in WireAttestations } }

Answers ==
  { Answer(FALSE, m) :
      m \in { f \in [AttEpochs -> UNION { AttestorMaps(e) : e \in AttEpochs }] :
                 \A e \in AttEpochs : f[e] \in AttestorMaps(e) } }

ParseInit ==
  /\ ExporterInit({NoRun})
  /\ StreamAtRest
  /\ CacheAtRest
  /\ SnapAtRest
  /\ \/ ParseStart(ParseContainers, {OkAnswer, ErrAnswer})
     \/ ParseStart(AttestationContainers, Answers)

\* parseRpcBlock(container) runs and returns.
ParseBlock ==
  /\ ppc = "wire"
  /\ ppc' = "done"
  /\ parsed' = parseRpcBlock(container, lookup)
  /\ UNCHANGED <<container, lookup, canon>>
  /\ UNCHANGED <<exporterVars, streamVars, cacheVars, snapVars>>

\* block.GetAltairBlock() and block.GetPhase0Block() (lines 577, 580): nil
\* unless that variant is the populated one.
GetAltairBlock(block) == IF block.variant = "altair" THEN block.slot ELSE -1

GetPhase0Block(block) == IF block.variant = "phase0" THEN block.slot ELSE -1

\* GetBlock().GetSlot() on a nil block is 0 (line 580).
GetSlot(b) == IF b = -1 THEN 0 ELSE b

\* Lines 574-588: the types.CanonBlock of a container.
CanonBlock(block) ==
  [blockRoot |-> block.blockRoot,
   slot |-> IF GetAltairBlock(block) # -1 THEN GetAltairBlock(block)
            ELSE GetSlot(GetPhase0Block(block)),
   canonical |-> block.canonical]

\* An ethpb.ListBlocksResponse, or the error of ListBeaconBlocks.
BlocksReply(err, containers) ==
  [err |-> err, totalSize |-> Len(containers), containers |-> containers]

\* GetBlockStatusByEpoch (lines 560-593) on the answer of ListBeaconBlocks.
GetBlockStatusByEpoch(reply) ==
  IF reply.err THEN [err |-> TRUE, blocks |-> << >>, asked |-> reply.containers]
  ELSE IF reply.totalSize = 0 THEN [err |-> FALSE, blocks |-> << >>, asked |-> reply.containers]
  ELSE [err |-> FALSE,
        blocks |-> [i \in 1..Len(reply.containers) |-> CanonBlock(reply.containers[i])],
        asked |-> reply.containers]

\* GetBlockStatusByEpoch runs for an epoch of which the node answers with an
\* error, with no container, with the container, or with it and a phase0
\* block of the next slot.
BlockStatus ==
  /\ ppc = "wire"
  /\ ppc' = "status"
  /\ \E reply \in { BlocksReply(TRUE, << >>), BlocksReply(FALSE, << >>),
                     BlocksReply(FALSE, << container >>),
                     BlocksReply(FALSE, << container,
                                           Container("phase0", "rb", TRUE, container.slot + 1,
                                                     NoPayload, FALSE, 0, << >>) >>) } :
       canon' = GetBlockStatusByEpoch(reply)
  /\ UNCHANGED <<container, lookup, parsed>>
  /\ UNCHANGED <<exporterVars, streamVars, cacheVars, snapVars>>

ParseNext ==
  \/ ParseBlock
  \/ BlockStatus

ParseSpec == ParseInit /\ [][ParseNext]_vars

(* ------------------------------------------------------------------ *)
(* Properties of the conversion                                        *)
(* ------------------------------------------------------------------ *)

ConverterOf(variant) ==
  CASE variant = "phase0"    -> "parsePhase0Block"
    [] variant = "altair"    -> "parseAltairBlock"
    [] variant = "bellatrix" -> "parseBellatrixBlock"
    [] variant = "capella"   -> "parseCapellaBlock"
    [] OTHER                 -> ""

\* C18: parseRpcBlock returns either an error and no block, or a block and no
\* error; with no variant populated it returns an error; a block it returns
\* was built by the conversion of the populated variant and has status 1
\* (proposed) and the block root and canonical flag of the container.
C18_DispatchByVariant ==
  ppc = "done" =>
    /\ (parsed.err # "") <=> parsed.isNil
    /\ container.variant = "none" =>
         parsed.err = "block is neither phase0 nor altair nor bellatrix nor capella"
    /\ ~parsed.isNil =>
         /\ parsed.parsedBy = ConverterOf(container.variant)
         /\ parsed.status = 1
         /\ parsed.blockRoot = container.blockRoot
         /\ parsed.canonical = container.canonical
         /\ parsed.syncAggregate
              = (container.syncAggregate /\ container.variant # "phase0")
         /\ parsed.blsChanges.isNil = (container.variant # "capella")

\* A capella container was converted, and one with no variant was refused.
C18_Witness ==
  /\ ppc = "done"
  /\ container.variant = "capella"
  /\ ~parsed.isNil
  /\ parsed.parsedBy = "parseCapellaBlock"
  /\ parsed.canonical /\ parsed.blockRoot = "rb"

\* C19 (as claimed): every container with only its bellatrix variant populated
\* that is converted gives a block with a non-nil execution payload and a nil
\* set of BLS-to-execution changes.
C19_BellatrixAlwaysHasPayload ==
  (ppc = "done" /\ container.variant = "bellatrix" /\ ~parsed.isNil) =>
     /\ ~parsed.executionPayload.isNil
     /\ parsed.blsChanges.isNil

\* C19 (amended): a converted bellatrix container gives a block whose
\* execution payload is non-nil exactly when the wire payload is present with
\* a parent hash that is not all zero, and nil for the empty payload of a
\* block before the merge; its payload has a nil set of withdrawals and the
\* block a nil set of BLS-to-execution changes.
C19_BellatrixPayloadWhenParentHash ==
  (ppc = "done" /\ container.variant = "bellatrix" /\ ~parsed.isNil) =>
     /\ parsed.executionPayload.isNil
          = ~(container.payload.present /\ container.payload.parentHash # "zero")
     /\ ~parsed.executionPayload.isNil =>
          /\ parsed.executionPayload.withdrawals.isNil
          /\ Len(parsed.executionPayload.transactions)
               = Len(container.payload.transactions)
     /\ parsed.blsChanges.isNil

\* A bellatrix container with two transactions was converted.
C19_Witness ==
  /\ ppc = "done" /\ container.variant = "bellatrix"
  /\ ~parsed.isNil
  /\ ~parsed.executionPayload.isNil
  /\ Len(parsed.executionPayload.transactions) = 2
  /\ parsed.blsChanges.isNil

\* C20: a converted capella container whose execution payload has
\* withdrawals gives a block whose execution payload has one withdrawal
\* record per wire withdrawal, in the same order, each with the slot of the
\* block and the block root of the container; a block converted from a
\* phase0, altair or bellatrix container carries no withdrawal record.
C20_WithdrawalsOnlyInCapella ==
  (ppc = "done" /\ ~parsed.isNil) =>
     LET ws == container.payload.withdrawals
         rs == parsed.executionPayload.withdrawals.items
     IN  /\ (container.variant = "capella" /\ Len(ws) > 0) =>
              /\ ~parsed.executionPayload.isNil
              /\ Len(rs) = Len(ws)
              /\ \A i \in 1..Len(ws) :
                   /\ rs[i].index = ws[i].index
                   /\ rs[i].validatorIndex = ws[i].validatorIndex
                   /\ rs[i].address = ws[i].address
                   /\ rs[i].amount = ws[i].amount
                   /\ rs[i].slot = container.slot
                   /\ rs[i].blockRoot = container.blockRoot
         /\ (container.variant # "capella") =>
              (parsed.executionPayload.withdrawals.isNil /\ rs = << >>)

\* A capella container with two different withdrawals was converted.
C20_Witness ==
  /\ ppc = "done" /\ container.variant = "capella" /\ ~parsed.isNil
  /\ Len(parsed.executionPayload.withdrawals.items) = 2
  /\ parsed.executionPayload.withdrawals.items[1].index
       # parsed.executionPayload.withdrawals.items[2].index
  /\ parsed.executionPayload.withdrawals.items[1].slot = 33

\* The positions of the set bits of an aggregation bitlist.
SetBits(bits) == { i \in 0..(Len(bits) - 1) : bits[i + 1] }

\* The k-th smallest element of a set of numbers.
Nth(S, k) == CHOOSE p \in S : Cardinality({ q \in S : q < p }) = k - 1

\* C21: every attestation of a normalized block has one attester per set bit
\* of its aggregation bitlist, in ascending bit position, each the validator
\* that the assignments of the attestation's own epoch hold under (slot,
\* committee index, bit position), or 0 when they hold none; a missing key
\* does not make the conversion fail.
C21_AttestersFollowSetBits ==
  ppc = "done" =>
    /\ ~parsed.isNil =>
         /\ Len(parsed.attestations) = Len(container.attestations)
         /\ \A n \in 1..Len(container.attestations) :
              LET a   == container.attestations[n]
                  out == parsed.attestations[n].attesters
                  set == SetBits(a.aggregationBits)
                  m   == lookup.attestors[a.slot \div SlotsPerEpoch]
              IN  /\ Len(out) = Cardinality(set)
                  /\ \A k \in 1..Len(out) :
                       LET key == << a.slot, a.committeeIndex, Nth(set, k) >>
                       IN  out[k] = IF key \in DOMAIN m THEN m[key] ELSE 0
    /\ (container \in AttestationContainers /\ ~lookup.err) =>
         (~parsed.isNil /\ parsed.err = "")

\* A block was returned whose attestation of epoch 1 has its bits 0 and 1
\* set, the second without an assignment.
C21_Witness ==
  /\ ppc = "done"
  /\ ~parsed.isNil /\ parsed.err = ""
  /\ \E n \in 1..Len(parsed.attestations) :
       /\ container.attestations[n].slot = SlotsPerEpoch + 1
       /\ container.attestations[n].committeeIndex = 1
       /\ container.attestations[n].aggregationBits = << TRUE, TRUE, FALSE >>
       /\ parsed.attestations[n].attesters = << 111, 0 >>

(* ------------------------------------------------------------------ *)
(* The chain-head stream task (prysm.go lines 75-110) and the channel  *)
(* ------------------------------------------------------------------ *)

\* What the beacon node can hold at a slot: in the run of the late consumer
\* two blocks a slot; otherwise up to two containers with different roots,
\* among them, in a run that allows it, one with no variant populated.
HeldAt(run, slot) ==
  LET good == { Container("phase0", r, TRUE, slot, NoPayload, FALSE, 0, << >>) : r \in run.roots }
      odd  == IF run.unparseable
              THEN { Container("none", "rc", TRUE, slot, NoPayload, FALSE, 0, << >>) } ELSE {}
      all  == good \cup odd
  IN  IF run.lazy
      THEN { << Container("phase0", "ra", TRUE, slot, NoPayload, FALSE, 0, << >>),
                Container("phase0", "rb", TRUE, slot, NoPayload, FALSE, 0, << >>) >> }
      ELSE { << >> } \cup { <<c>> : c \in all }
           \cup { p \in all \X all : p[1] # p[2] }

\* The slots the next head message can report.
HeadSlots(run, n) == IF run.lazy THEN {n + 1} ELSE run.slots

\* The answers of ListBeaconBlocks (line 528) for a slot whose containers
\* are held: the containers, or an error.
ListReplies(run, held) ==
  { [err |-> FALSE, containers |-> held] }
  \cup (IF run.faults THEN { [err |-> TRUE, containers |-> << >>] } ELSE {})

GetBlocksBySlot_FirstOnly(reply) ==
  IF reply.err THEN [err |-> TRUE, blocks |-> << >>]
  ELSE IF Len(reply.containers) = 0 THEN [err |-> FALSE, blocks |-> << >>]
  ELSE [err |-> FALSE, blocks |-> << parseRpcBlock(reply.containers[1], OkAnswer) >>]

\* GetBlocksBySlot (lines 517-557) on the answer of ListBeaconBlocks: the
\* error of the call or of the first container that does not convert, else
\* the converted blocks in the order of the answer.
GetBlocksBySlot(reply) ==
  LET n  == Len(reply.containers)
      bs == [i \in 1..n |-> parseRpcBlock(reply.containers[i], OkAnswer)]
  IN  IF reply.err THEN [err |-> TRUE, blocks |-> << >>]
      ELSE IF n = 0 THEN [err |-> FALSE, blocks |-> << >>]
      ELSE IF \E i \in 1..n : bs[i].isNil THEN [err |-> TRUE, blocks |-> << >>]
      ELSE [err |-> FALSE, blocks |-> bs]

ChanCanSend_Always(ch) == TRUE

\* A send on the buffered channel goes through when the buffer has room and
\* blocks otherwise (line 107).
ChanCanSend(ch) == Len(ch) < newBlockChanCap

ChanSend(ch, b) == Append(ch, b)

AfterEstablish_GiveUp(failed) == IF failed THEN "exited" ELSE "recv"

\* Lines 89-95: a failed StreamChainHead is followed by another sleep and
\* attempt, a successful one by "continue".
AfterEstablish(failed) == IF failed THEN "sleep" ELSE "recv"

\* The block roots a lookup that succeeds on the held containers returns.
DueOf(reply) ==
  IF reply.err \/ \E i \in 1..Len(reply.containers) : reply.containers[i].variant = "none"
  THEN << >>
  ELSE [i \in 1..Len(reply.containers) |-> reply.containers[i].blockRoot]

StreamInit ==
  /\ ExporterInit({NoRun})
  /\ StreamStart(StreamRuns)
  /\ CacheAtRest
  /\ SnapAtRest
  /\ ParseAtRest

StreamRest == <<exporterVars, cacheVars, parseVars, snapVars, streamRun>>

\* Line 82, Recv returns a head message.
Recv ==
  /\ spc = "recv"
  /\ heads < streamRun.heads
  /\ \E slot \in HeadSlots(streamRun, heads) :
       /\ head' = slot
       /\ listing' \in HeldAt(streamRun, slot)
  /\ heads' = heads + 1
  /\ spc' = "list"
  /\ UNCHANGED <<blocks, newBlockChan, dueLeft, nForwarded, lastForwarded, nReceived,
                 lastReceived, sleeps, attempts, consuming>>
  /\ UNCHANGED StreamRest

\* Line 82, Recv returns an error (lines 84-86).
RecvFails ==
  /\ spc = "recv"
  /\ streamRun.faults
  /\ spc' = "sleep"
  /\ sleeps' = 0
  /\ attempts' = 0
  /\ UNCHANGED <<head, listing, blocks, newBlockChan, heads, dueLeft, nForwarded,
                 lastForwarded, nReceived, lastReceived,
                 consuming>>
  /\ UNCHANGED StreamRest

\* time.Sleep(time.Second), lines 88 and 92.
Sleep ==
  /\ spc = "sleep"
  /\ sleeps' = sleeps + 1
  /\ spc' = "establish"
  /\ UNCHANGED <<head, listing, blocks, newBlockChan, heads, dueLeft, nForwarded,
                 lastForwarded, nReceived, lastReceived,
                 attempts, consuming>>
  /\ UNCHANGED StreamRest

\* StreamChainHead (lines 89 and 93) returns a stream.
Establish ==
  /\ spc = "establish"
  /\ attempts' = attempts + 1
  /\ spc' = AfterEstablish(FALSE)
  /\ UNCHANGED <<head, listing, blocks, newBlockChan, heads, dueLeft, nForwarded,
                 lastForwarded, nReceived, lastReceived,
                 sleeps, consuming>>
  /\ UNCHANGED StreamRest

\* StreamChainHead (lines 89 and 93) returns an error.
EstablishFails ==
  /\ spc = "establish"
  /\ attempts < MaxAttempts
  /\ attempts' = attempts + 1
  /\ spc' = AfterEstablish(TRUE)
  /\ UNCHANGED <<head, listing, blocks, newBlockChan, heads, dueLeft, nForwarded,
                 lastForwarded, nReceived, lastReceived,
                 sleeps, consuming>>
  /\ UNCHANGED StreamRest

\* Lines 98-105: GetBlocksBySlot(head.HeadSlot), and "continue" on its error
\* or the start of the range loop over its blocks.
ListBlocks ==
  /\ spc = "list"
  /\ \E reply \in ListReplies(streamRun, listing) :
       LET res == GetBlocksBySlot(reply)
       IN  /\ blocks' = res.blocks
           /\ dueLeft' = DueOf(reply)
           /\ spc' = IF res.err \/ res.blocks = << >> THEN "recv" ELSE "send"
  /\ UNCHANGED <<head, listing, newBlockChan, heads, nForwarded, lastForwarded, nReceived,
                 lastReceived, sleeps, attempts, consuming>>
  /\ UNCHANGED StreamRest

\* Line 107, client.newBlockChan <- b, for the next block of the range loop.
Send ==
  /\ spc = "send"
  /\ ChanCanSend(newBlockChan)
  /\ newBlockChan' = ChanSend(newBlockChan, Ref(Head(blocks), nForwarded + 1))
  /\ nForwarded' = nForwarded + 1
  /\ lastForwarded' = Ref(Head(blocks), nForwarded + 1)
  /\ blocks' = Tail(blocks)
  /\ dueLeft' = Tail(dueLeft)
  /\ spc' = IF Tail(blocks) = << >> THEN "recv" ELSE "send"
  /\ UNCHANGED <<head, listing, heads, nReceived, lastReceived, sleeps, attempts, consuming>>
  /\ UNCHANGED StreamRest

\* The consumer starts to read GetNewBlockChan() (lines 119-121); the late
\* consumer does when the channel is full.
StartConsuming ==
  /\ ~consuming
  /\ streamRun.lazy => Len(newBlockChan) = newBlockChanCap
  /\ consuming' = TRUE
  /\ UNCHANGED <<spc, head, listing, blocks, newBlockChan, heads, dueLeft, nForwarded,
                 lastForwarded, nReceived, lastReceived, sleeps, attempts>>
  /\ UNCHANGED StreamRest

\* The consumer receives from the channel.
Consume ==
  /\ consuming
  /\ newBlockChan # << >>
  /\ nReceived' = nReceived + 1
  /\ lastReceived' = Head(newBlockChan)
  /\ newBlockChan' = Tail(newBlockChan)
  /\ UNCHANGED <<spc, head, listing, blocks, heads, dueLeft, nForwarded, lastForwarded,
                 sleeps, attempts, consuming>>
  /\ UNCHANGED StreamRest

\* The steps of the goroutine of line 80.
StreamTask == Recv \/ RecvFails \/ Sleep \/ Establish \/ EstablishFails \/ ListBlocks \/ Send

StreamNext ==
  \/ Recv
  \/ RecvFails
  \/ Sleep
  \/ Establish
  \/ EstablishFails
  \/ ListBlocks
  \/ Send
  \/ StartConsuming
  \/ Consume

\* The goroutine keeps running, and the consumer keeps reading.
StreamSpec ==
  /\ StreamInit
  /\ [][StreamNext]_vars
  /\ WF_vars(StreamTask)
  /\ WF_vars(StartConsuming)
  /\ WF_vars(Consume)

(* ------------------------------------------------------------------ *)
(* Properties of the stream task and the channel                       *)
(* ------------------------------------------------------------------ *)

StreamPositions == {"recv", "list", "send", "sleep", "establish"}

Reconnecting == spc \in {"sleep", "establish"}

\* C13: the stream task is always at a statement of its loop; after a receive
\* error every StreamChainHead attempt follows one sleep of a second, the
\* task goes back to Recv only after an attempt that succeeded, and (the node
\* accepting a subscription after finitely many refusals) the task does go
\* back to Recv.
C13_StreamReconnects ==
  /\ [](spc \in StreamPositions)
  /\ [](spc = "sleep" => sleeps = attempts)
  /\ [](spc = "establish" => sleeps = attempts + 1)
  /\ []((~Reconnecting /\ sleeps > 0) => sleeps = attempts)
  /\ (Reconnecting ~> spc = "recv")

\* The task is back at Recv after two refused attempts and an accepted one.
C13_Witness ==
  /\ spc = "recv"
  /\ attempts = MaxAttempts + 1
  /\ sleeps = MaxAttempts + 1

RootsOf(bs) == [i \in 1..Len(bs) |-> bs[i].blockRoot]

\* C14 (as claimed): for every head message received, each block held at the
\* reported slot is what the task goes on to place on the channel.
C14_EveryHeadForwarded ==
  [][spc = "list" =>
       RootsOf(blocks') = [i \in 1..Len(listing) |-> listing[i].blockRoot]]_vars

\* The channel holds, oldest first, the blocks of the sends that completed
\* and were not yet received.
InSendOrder ==
  /\ \A i \in 1..Len(newBlockChan) : newBlockChan[i].seq = nReceived + i
  /\ Len(newBlockChan) = nForwarded - nReceived
  /\ newBlockChan # << >> => newBlockChan[Len(newBlockChan)] = lastForwarded
  /\ lastReceived.seq = nReceived

\* C14 (amended): for every head message whose block lookup succeeds (the
\* listing call returns and every container converts), each block of the
\* answer is placed on the channel, in the order of the answer and in the
\* order of the head messages; a head message whose lookup fails places none.
C14_LookedUpBlocksForwardedInOrder ==
  /\ RootsOf(blocks) = dueLeft
  /\ (spc = "send") = (blocks # << >>)
  /\ \A i \in 1..Len(blocks) : blocks[i].status = 1 /\ blocks[i].slot = head
  /\ InSendOrder

\* The two blocks of the second head message were received after the block
\* of the first.
C14_Witness ==
  /\ spc = "recv" /\ heads = 2
  /\ nReceived = 3
  /\ lastReceived = [slot |-> 7, blockRoot |-> "ra", seq |-> 3]
  /\ Len(listing) = 2 /\ listing[1].blockRoot = "rb"

\* The number of blocks the task has placed or is waiting to place.
Tried == nForwarded + (IF spc = "send" THEN 1 ELSE 0)

\* C15: the channel never holds more than 1000 blocks; it holds exactly the
\* blocks sent and not yet received, in the order of the sends, so no block
\* is dropped, overwritten or delivered twice; and with a consumer that keeps
\* reading, the first block and the block that had to wait for room at the
\* full channel are received.
C15_BoundedChannelDeliversAll ==
  /\ [](Len(newBlockChan) <= 1000)
  /\ []InSendOrder
  /\ \A k \in {1, newBlockChanCap + 2} : (Tried >= k) ~> (nReceived >= k)

\* A block that had waited at the full channel was received.
C15_Witness ==
  /\ nReceived = newBlockChanCap + 2
  /\ lastReceived.seq = newBlockChanCap + 2
  /\ lastReceived.slot = 501

(* ------------------------------------------------------------------ *)
(* GetEpochAssignments (prysm.go lines 175-235)                        *)
(* ------------------------------------------------------------------ *)

\* The lru cache as a sequence of entries, most recently used first.
LruHas(cache, e) == \E i \in 1..Len(cache) : cache[i].epoch = e

LruPos(cache, e) == CHOOSE i \in 1..Len(cache) : cache[i].epoch = e

LruWithout(cache, e) == SelectSeq(cache, LAMBDA x : x.epoch # e)

\* assignmentsCache.Get(epoch) on a hit (line 182): the value, and the entry
\* becomes the most recently used.
LruValue(cache, e) == cache[LruPos(cache, e)].inst

LruTouch(cache, e) == << cache[LruPos(cache, e)] >> \o LruWithout(cache, e)

LruAdd_Unbounded(cache, e, v) == << [epoch |-> e, inst |-> v] >> \o LruWithout(cache, e)

\* assignmentsCache.Add(epoch, assignments) (line 230): the entry becomes
\* the most recently used, and the least recently used is evicted when the
\* cache holds more than its size.
LruAdd(cache, e, v) ==
  LET put == << [epoch |-> e, inst |-> v] >> \o LruWithout(cache, e)
  IN  IF Len(put) > assignmentsCacheSize THEN SubSeq(put, 1, assignmentsCacheSize) ELSE put

MutexFree_Always(m) == TRUE

\* assignmentsCacheMux.Lock() (line 177) returns when no one holds the mutex.
MutexFree(m) == m = "free"

Cacheable_Always(g) == TRUE

\* The condition of line 229: there are proposer and attestor assignments.
Cacheable(g) == g.proposers /\ g.attestors

LoopEnds_AtLeast(page, n) == page.token = "" \/ page.totalSize = 0 \/ n >= page.totalSize

\* The break condition of line 211, n being len(validatorAssignmentes).
LoopEnds(page, n) == page.token = "" \/ page.totalSize = 0 \/ n = page.totalSize

\* Line 208: the assignments of a response appended to the ones gathered.
Gather(g, page) ==
  [g EXCEPT !.n = g.n + page.n, !.proposers = g.proposers \/ page.proposers,
            !.attestors = g.attestors \/ page.attestors, !.token = page.token,
            !.totalSize = page.totalSize]

\* The responses the node can give to the next call of a computation: the
\* listing has at most MaxPages pages.
PagesAt(run, read) ==
  IF read + 1 >= MaxPages THEN { q \in run.pages : q.token = "" } ELSE run.pages

\* The epochs a caller can ask for next.
NextEpochs(run) ==
  IF run.sweep
  THEN LET fresh == { e \in run.epochs : committed[e] = 0 }
       IN  {0} \cup { e \in fresh : \A f \in fresh : e <= f }
  ELSE run.epochs

Bump(n) == IF n < assignmentsCacheSize THEN n + 1 ELSE n

CacheInit ==
  /\ ExporterInit({NoRun})
  /\ StreamAtRest
  /\ SnapAtRest
  /\ CacheStart(CacheRuns)
  /\ ParseAtRest

CacheRest == <<exporterVars, streamVars, parseVars, snapVars, cacheRun>>

\* GetEpochAssignments(e) is called and reaches Lock (line 177).
Call ==
  /\ callsMade < cacheRun.calls
  /\ \E c \in cacheRun.callers, e \in NextEpochs(cacheRun) :
       /\ cpc[c] = "idle"
       /\ cpc' = [cpc EXCEPT ![c] = "lock"]
       /\ cepoch' = [cepoch EXCEPT ![c] = e]
       /\ follows' = [follows EXCEPT ![c] = NoFollow]
       /\ cres' = [cres EXCEPT ![c] = NoCall]
  /\ callsMade' = callsMade + 1
  /\ UNCHANGED <<assignmentsCacheMux, assignmentsCache, pagesRead, instances, committed,
                 addsSince, gathered, lastPage, heap>>
  /\ UNCHANGED CacheRest

\* What the return of c's call leaves: its result, the mutex released by the
\* deferred Unlock (line 178), and the call noted for a caller of the same
\* epoch that is inside GetEpochAssignments meanwhile.
Return(c, inst, err, listCalls, added, before, adds) ==
  /\ cpc' = [cpc EXCEPT ![c] = "idle"]
  /\ assignmentsCacheMux' = "free"
  /\ cres' = [cres EXCEPT ![c] =
                [done |-> TRUE, epoch |-> cepoch[c], inst |-> inst, err |-> err,
                 listCalls |-> listCalls, added |-> added, before |-> before,
                 adds |-> adds]]
  /\ follows' = [d \in Callers |->
                   IF d # c /\ cpc[d] # "idle" /\ cepoch[d] = cepoch[c]
                   THEN [valid |-> TRUE, inst |-> inst, err |-> err,
                         listCalls |-> listCalls, added |-> added]
                   ELSE follows[d]]

\* Lines 177-185: the mutex is taken and the cache has the epoch.
LockAndHit ==
  \E c \in Callers :
    /\ cpc[c] = "lock"
    /\ MutexFree(assignmentsCacheMux)
    /\ LruHas(assignmentsCache, cepoch[c])
    /\ assignmentsCache' = LruTouch(assignmentsCache, cepoch[c])
    /\ addsSince' = [addsSince EXCEPT ![cepoch[c]] = 0]
    /\ Return(c, LruValue(assignmentsCache, cepoch[c]), FALSE, 0, FALSE,
              committed[cepoch[c]], addsSince[cepoch[c]])
    /\ UNCHANGED <<cepoch, pagesRead, instances, callsMade, committed, gathered, lastPage,
                   heap>>
    /\ UNCHANGED CacheRest

\* Lines 177-200: the mutex is taken, the cache does not have the epoch, and
\* the computation starts.
LockAndMiss ==
  \E c \in Callers :
    /\ cpc[c] = "lock"
    /\ MutexFree(assignmentsCacheMux)
    /\ ~LruHas(assignmentsCache, cepoch[c])
    /\ assignmentsCacheMux' = c
    /\ cpc' = [cpc EXCEPT ![c] = "list"]
    /\ pagesRead' = 0
    /\ gathered' = NoPage
    /\ lastPage' = NoPage
    /\ cres' = [cres EXCEPT ![c] =
                  [NoCall EXCEPT !.epoch = cepoch[c], !.before = committed[cepoch[c]],
                                 !.adds = addsSince[cepoch[c]]]]
    /\ UNCHANGED <<cepoch, assignmentsCache, instances, callsMade, follows, committed,
                   addsSince, heap>>
    /\ UNCHANGED CacheRest

\* Lines 202-213: ListValidatorAssignments returns a response after which
\* the loop goes on.
ListPage ==
  \E c \in Callers, page \in PagesAt(cacheRun, pagesRead) :
    /\ cpc[c] = "list"
    /\ ~LoopEnds(page, gathered.n + page.n)
    /\ pagesRead' = pagesRead + 1
    /\ gathered' = Gather(gathered, page)
    /\ lastPage' = page
    /\ UNCHANGED <<cpc, cepoch, assignmentsCacheMux, assignmentsCache, instances, callsMade,
                   cres, follows, committed, addsSince, heap>>
    /\ UNCHANGED CacheRest

\* Lines 203-206: ListValidatorAssignments returns an error.
ListFails ==
  \E c \in Callers :
    /\ cpc[c] = "list"
    /\ cacheRun.faults
    /\ pagesRead' = pagesRead + 1
    /\ lastPage' = FailedPage
    /\ Return(c, 0, TRUE, pagesRead + 1, FALSE, cres[c].before, cres[c].adds)
    /\ UNCHANGED <<cepoch, assignmentsCache, instances, callsMade, committed, addsSince,
                   gathered, heap>>
    /\ UNCHANGED CacheRest

\* Lines 203-234: the response that ends the loop arrives, the assignments
\* are extracted, added to the cache when there are proposer and attestor
\* assignments, and returned.
ListEnds ==
  \E c \in Callers, page \in PagesAt(cacheRun, pagesRead) :
    LET e == cepoch[c]
        v == instances + 1
        g == Gather(gathered, page)
    IN  /\ cpc[c] = "list"
        /\ LoopEnds(page, g.n)
        /\ pagesRead' = pagesRead + 1
        /\ gathered' = g
        /\ lastPage' = page
        /\ instances' = v
        /\ heap' = Append(heap, [proposers |-> g.proposers, attestors |-> g.attestors])
        /\ IF Cacheable(g)
           THEN /\ assignmentsCache' = LruAdd(assignmentsCache, e, v)
                /\ committed' = [committed EXCEPT ![e] = v]
                /\ addsSince' = [f \in Epochs |-> IF f = e THEN 0 ELSE Bump(addsSince[f])]
           ELSE UNCHANGED <<assignmentsCache, committed, addsSince>>
        /\ Return(c, v, FALSE, pagesRead + 1, Cacheable(g), cres[c].before, cres[c].adds)
        /\ UNCHANGED <<cepoch, callsMade>>
        /\ UNCHANGED CacheRest

CacheNext ==
  \/ Call
  \/ LockAndHit
  \/ LockAndMiss
  \/ ListPage
  \/ ListFails
  \/ ListEnds

CacheSpec == CacheInit /\ [][CacheNext]_vars

(* ------------------------------------------------------------------ *)
(* Properties of the assignment cache                                  *)
(* ------------------------------------------------------------------ *)

\* Caller c's call has returned, and while it was inside GetEpochAssignments
\* another call for the same epoch found the epoch uncached and computed.
WaitedForComputation(c) ==
  cres[c].done /\ follows[c].valid /\ follows[c].listCalls > 0

\* C16 (as claimed): of two concurrent calls for the same uncached epoch only
\* the first computes; the second makes no upstream call and returns the
\* first call's instance.
C16_SecondCallReuses ==
  \A c \in Callers :
    WaitedForComputation(c) =>
      (cres[c].listCalls = 0 /\ cres[c].inst = follows[c].inst)

\* C16 (amended): the two calls never compute at the same time; when the
\* first call's computation ended with proposer and attestor assignments, so
\* that it was added to the cache, the second call makes no upstream call and
\* returns the first call's instance; when it ended with an error or without
\* assignments, nothing was added and the second call computes again.
C16_SecondCallReusesWhatWasCached ==
  /\ Cardinality({ c \in Callers : cpc[c] = "list" }) <= 1
  /\ \A c \in Callers : cpc[c] = "list" => assignmentsCacheMux = c
  /\ \A c \in Callers :
       WaitedForComputation(c) =>
         IF follows[c].added
         THEN cres[c].listCalls = 0 /\ cres[c].inst = follows[c].inst /\ ~cres[c].err
         ELSE cres[c].listCalls > 0 /\ (cres[c].err \/ cres[c].inst # follows[c].inst)

\* The second of two concurrent calls returned the instance the first one
\* computed in two pages.
C16_Witness ==
  \E c \in Callers :
    /\ WaitedForComputation(c)
    /\ follows[c].added
    /\ follows[c].listCalls = 2
    /\ cres[c].listCalls = 0
    /\ cres[c].inst = follows[c].inst
    /\ cres[c].inst # 0

Computing == { c \in Callers : cpc[c] = "list" }

\* C25: no two GetEpochAssignments calls are between their cache lookup and
\* their cache store at the same time, whatever their epochs: a caller is
\* there only while it holds the mutex, and the others are outside or wait at
\* Lock.
C25_OneCallInsideAtATime ==
  /\ Cardinality(Computing) <= 1
  /\ \A c \in Computing :
       /\ assignmentsCacheMux = c
       /\ \A d \in Callers \ {c} : cpc[d] \in {"idle", "lock"}
  /\ assignmentsCacheMux # "free" => assignmentsCacheMux \in Computing

\* One caller computes epoch 3 after a first response while the other waits
\* at Lock with epoch 4.
C25_Witness ==
  \E c, d \in Callers :
    /\ cpc[c] = "list" /\ cepoch[c] = 3 /\ pagesRead = 1
    /\ cpc[d] = "lock" /\ cepoch[d] = 4

\* C26: every entry of the assignment cache has proposer assignments and
\* attestor assignments; a computed result was added exactly when it had
\* both, and a call whose listing failed added nothing.
C26_CachedAssignmentsNonEmpty ==
  /\ \A i \in 1..Len(assignmentsCache) :
       /\ assignmentsCache[i].inst \in 1..Len(heap)
       /\ heap[assignmentsCache[i].inst].proposers
       /\ heap[assignmentsCache[i].inst].attestors
  /\ \A c \in Callers :
       (cres[c].done /\ cres[c].listCalls > 0) =>
         IF cres[c].err
         THEN ~cres[c].added /\ cres[c].inst = 0
         ELSE cres[c].added <=>
                (heap[cres[c].inst].proposers /\ heap[cres[c].inst].attestors)

\* A computation that gathered assignments with proposers but without
\* attestors has returned, and the cache is still empty.
C26_Witness ==
  \E c \in Callers :
    /\ cres[c].done /\ ~cres[c].err /\ cres[c].listCalls = 2
    /\ ~cres[c].added
    /\ gathered.n > 0 /\ heap[cres[c].inst].proposers /\ ~heap[cres[c].inst].attestors
    /\ assignmentsCache = << >>

\* C27 (as claimed): the pagination loop is left as soon as a response has
\* an empty next-page token or the number of assignments gathered has
\* reached the reported total, also when it has passed it.
C27_LoopEndsWhenTotalReached ==
  \A c \in Callers :
    (cpc[c] = "list" /\ pagesRead > 0) =>
      ~(lastPage.token = "" \/ gathered.n >= lastPage.totalSize)

\* C27 (amended): the pagination loop is left at the first response that has
\* an empty next-page token, reports a total of 0, or makes the number of
\* assignments gathered equal to the reported total; after a response that
\* makes the number pass the total without a response having made it equal,
\* and that has a token, the loop goes on.
C27_LoopEndsWhenTotalMet ==
  /\ \A c \in Callers :
       (cpc[c] = "list" /\ pagesRead > 0) =>
         /\ lastPage.token # ""
         /\ lastPage.totalSize # 0
         /\ gathered.n # lastPage.totalSize
  /\ (Computing = {} /\ pagesRead > 0 /\ ~lastPage.err) =>
       \/ lastPage.token = ""
       \/ lastPage.totalSize = 0
       \/ gathered.n = lastPage.totalSize

\* The loop goes on after a response that made the number gathered pass the
\* reported total.
C27_Witness ==
  \E c \in Callers :
    /\ cpc[c] = "list" /\ pagesRead = 1
    /\ lastPage.totalSize = 1
    /\ gathered.n = 2

(* ------------------------------------------------------------------ *)
(* GetEpochData (prysm.go lines 238-471) and GetSlotData (1411-1576)   *)
(* ------------------------------------------------------------------ *)

\* int64(slot): the unsigned word read as a signed one.
ToInt64(u) == IF u >= SlotHalf THEN u - SlotModulus ELSE u

\* The result of a signed subtraction, wrapped into the signed word.
WrapInt64(x) == ((x + SlotHalf + SlotModulus) % SlotModulus) - SlotHalf

RefSlot_NoFloor(s, back) == WrapInt64(ToInt64(s) - back)

\* Lines 265-277, 1435-1447: int64(slot) - back, replaced by 0 when negative.
RefSlot(s, back) ==
  LET d == WrapInt64(ToInt64(s) - back)
  IN  IF d < 0 THEN 0 ELSE d

ReferenceSlots(s) ==
  [slot1d |-> RefSlot(s, SlotsPerDay), slot7d |-> RefSlot(s, SlotsPerDay * 7),
   slot31d |-> RefSlot(s, SlotsPerDay * 31)]

\* Lines 245-253: the current slot of GetEpochData.
LastSlot(epoch, latest) ==
  IF latest = 0 THEN epoch * SlotsPerEpoch
  ELSE IF latest < (epoch + 1) * SlotsPerEpoch - 1 THEN latest
  ELSE (epoch + 1) * SlotsPerEpoch - 1

\* The result maps a task assigns: the balances and the withdrawal totals of
\* its slot.
BalancesOf(t) ==
  CASE t = "1d" -> "validatorBalances1d"
    [] t = "7d" -> "validatorBalances7d"
    [] t = "31d" -> "validatorBalances31d"

WithdrawalOf(t) ==
  CASE t = "now" -> "validatorWithdrawal"
    [] t = "1d" -> "validatorWithdrawal1d"
    [] t = "7d" -> "validatorWithdrawal7d"
    [] t = "31d" -> "validatorWithdrawal31d"

\* What GetBalancesForSlot returns with an error (lines 1587-1596): the empty
\* map it made, or nil.
FailedBalances == {"empty", "nil"}

\* What db.GetAllValidatorTotalWithdrawals returns with an error.
FailedTotals == {"empty", "nil"}

Joined_AnyDone(ts) == \E t \in Tasks : ts[t] = "done"

\* wg.Wait() (lines 352, 1522) returns when every task has called Done.
Joined(ts) == \A t \in Tasks : ts[t] = "done"

Beyond_OrAt(slot, latest) == slot >= latest

\* Lines 388 and 1532: the block is newer than the latest head slot.
Beyond(slot, latest) == slot > latest

AfterBalances_GoesOn(failed) == "totals"

\* Lines 306-309, 323-326, 340-343 (1476-1479, 1494-1497, 1511-1514): a task
\* whose balance lookup failed returns, otherwise it goes on to the totals.
AfterBalances(failed) == IF failed THEN "done" ELSE "totals"

\* utils.SlotToTime(slot), in seconds since genesis.
SlotToTime(slot) == slot * 12

IsScheduled_AtOrAfter(slot, now) == SlotToTime(slot) >= now - 60

\* Line 429: SlotToTime(slot).After(time.Now().Add(time.Second * -60)).
IsScheduled(slot, now) == SlotToTime(slot) > now - 60

\* Lines 409-437: the block put under "0x0" for a slot without a block.
Placeholder(slot, proposer, now) ==
  [slot |-> slot, key |-> "0x0", proposer |-> proposer,
   status |-> IF IsScheduled(slot, now) THEN 0 ELSE 2,
   blockRoot |-> IF IsScheduled(slot, now) THEN "0x0" ELSE "0x1"]

\* Lines 363-376: a block GetBlocksBySlot returned, under its root.
RealBlock(slot, root) ==
  [slot |-> slot, key |-> root, proposer |-> 1, status |-> 1, blockRoot |-> root]

\* Lines 363-439: data.Blocks from the blocks the node holds and the proposer
\* assignments.
EpochBlocks(held, proposers, now) ==
  { RealBlock(b[1], b[2]) : b \in held }
  \cup { Placeholder(slot, proposers[slot], now) :
           slot \in { q \in DOMAIN proposers : \A b \in held : b[1] # q } }

\* What the node holds in the epoch of the model, the proposer assignments
\* of the epoch, and the times of the merge.
HeldOutcomes == { {}, { <<32, "ra">> }, { <<32, "ra">>, <<32, "rb">>, <<33, "ra">> } }

ProposerOutcomes == { [q \in {} |-> 0], [q \in {33} |-> 8], [q \in {32, 33, 34} |-> q - 25] }

Nows == { 0, 455, 456, 1000 }

SnapInit ==
  /\ ExporterInit({NoRun})
  /\ StreamAtRest
  /\ CacheAtRest
  /\ ParseAtRest
  /\ SnapStart(SnapRuns)

SnapRest == <<exporterVars, streamVars, cacheVars, parseVars, snapRun>>

\* Lines 255-352, 1425-1522, for the current slot s: the validators are
\* fetched, which can fail and end the call; the reference slots are
\* computed, the result maps declared and the four tasks started.
Spawn(c, s) ==
  \/ /\ snapRun.faults
     /\ gpc' = [gpc EXCEPT ![c] = "idle"]
     /\ snap' = [snap EXCEPT ![c] = [NoSnap EXCEPT !.state = "error"]]
     /\ UNCHANGED <<refs, task, results>>
  \/ /\ gpc' = [gpc EXCEPT ![c] = "fan"]
     /\ refs' = [refs EXCEPT ![c] = ReferenceSlots(s)]
     /\ task' = [task EXCEPT ![c] = [t \in Tasks |-> "todo"]]
     /\ results' = [results EXCEPT ![c] = [v \in ResultMaps |-> ResultMap("nil", {}, FALSE)]]
     /\ snap' = [snap EXCEPT ![c] = NoSnap]

\* GetSlotData, line 1412: the block's slot is compared with the counter.
SlotCompare ==
  \E c \in snapRun.callers, s \in snapRun.slots, wd \in snapRun.withdrawals :
    /\ "slot" \in snapRun.kinds
    /\ gpc[c] = "idle"
    /\ garg' = [garg EXCEPT ![c] =
                  [kind |-> "slot", slot |-> s, epoch |-> s \div SlotsPerEpoch, wd |-> wd]]
    /\ IF s > PrysmLatestHeadSlot
       THEN /\ gpc' = [gpc EXCEPT ![c] = "write"]
            /\ UNCHANGED <<refs, task, results, snap>>
       ELSE Spawn(c, s)
    /\ UNCHANGED PrysmLatestHeadSlot
    /\ UNCHANGED SnapRest

\* GetSlotData, line 1413: the counter is set to the block's slot.
SlotWrite ==
  \E c \in SnapCallers :
    /\ gpc[c] = "write"
    /\ PrysmLatestHeadSlot' = garg[c].slot
    /\ Spawn(c, garg[c].slot)
    /\ UNCHANGED garg
    /\ UNCHANGED SnapRest

\* GetEpochData up to its tasks (lines 238-352).
EpochCall ==
  \E c \in snapRun.callers, e \in snapRun.epochs, wd \in snapRun.withdrawals :
    /\ "epoch" \in snapRun.kinds
    /\ gpc[c] = "idle"
    /\ garg' = [garg EXCEPT ![c] =
                  [kind |-> "epoch", slot |-> LastSlot(e, PrysmLatestHeadSlot),
                   epoch |-> e, wd |-> wd]]
    /\ Spawn(c, LastSlot(e, PrysmLatestHeadSlot))
    /\ UNCHANGED PrysmLatestHeadSlot
    /\ UNCHANGED SnapRest

\* A task calls GetBalancesForSlot and assigns its balances map (lines 305,
\* 323, 340); on an error it logs and ends.
Balances ==
  \E c \in SnapCallers, t \in Tasks \ {"now"} :
    /\ gpc[c] = "fan"
    /\ task[c][t] = "todo"
    /\ \/ /\ results' = [results EXCEPT ![c][BalancesOf(t)] =
                           ResultMap("full", @.by \cup {t}, FALSE)]
          /\ task' = [task EXCEPT ![c][t] = AfterBalances(FALSE)]
       \/ /\ snapRun.faults
          /\ \E val \in FailedBalances :
               results' = [results EXCEPT ![c][BalancesOf(t)] =
                             ResultMap(val, @.by \cup {t}, TRUE)]
          /\ task' = [task EXCEPT ![c][t] = AfterBalances(TRUE)]
    /\ UNCHANGED <<PrysmLatestHeadSlot, gpc, garg, refs, snap>>
    /\ UNCHANGED SnapRest

\* A task calls db.GetAllValidatorTotalWithdrawals and assigns its withdrawal
\* map (lines 293, 310, 328, 345), logs an error, and ends.
Totals ==
  \E c \in SnapCallers, t \in Tasks :
    /\ gpc[c] = "fan"
    /\ task[c][t] = IF t = "now" THEN "todo" ELSE "totals"
    /\ \/ results' = [results EXCEPT ![c][WithdrawalOf(t)] =
                        ResultMap("full", @.by \cup {t}, FALSE)]
       \/ /\ snapRun.faults
          /\ \E val \in FailedTotals :
               results' = [results EXCEPT ![c][WithdrawalOf(t)] =
                             ResultMap(val, @.by \cup {t}, TRUE)]
    /\ task' = [task EXCEPT ![c][t] = "done"]
    /\ UNCHANGED <<PrysmLatestHeadSlot, gpc, garg, refs, snap>>
    /\ UNCHANGED SnapRest

\* The end of a call that got its blocks: when a block beyond the counter
\* carries withdrawals they are added to validatorWithdrawal (lines 386-401,
\* 1532-1544), which panics on a nil map; otherwise the validators get the
\* values of the seven maps, 0 where a map has none, and the call returns.
Merge(c, beyond, found, proposers, held, now) ==
  LET adds == beyond /\ garg[c].wd
  IN  snap' = [snap EXCEPT ![c] =
                 IF adds /\ results[c]["validatorWithdrawal"].val = "nil"
                 THEN [NoSnap EXCEPT !.state = "panic", !.added = adds,
                                     !.pending = { t \in Tasks : task[c][t] # "done" }]
                 ELSE [state |-> "returned",
                       zero |-> { v \in ResultMaps : results[c][v].val # "full" },
                       pending |-> { t \in Tasks : task[c][t] # "done" },
                       blocks |-> found, proposers |-> proposers, held |-> held,
                       now |-> now, added |-> adds]]

\* GetSlotData after wg.Wait (lines 1522-1576).
SlotMerge ==
  \E c \in SnapCallers :
    /\ gpc[c] = "fan"
    /\ garg[c].kind = "slot"
    /\ Joined(task[c])
    /\ Merge(c, Beyond(garg[c].slot, PrysmLatestHeadSlot), { RealBlock(garg[c].slot, "ra") },
             << >>, { <<garg[c].slot, "ra">> }, 0)
    /\ gpc' = [gpc EXCEPT ![c] = "idle"]
    /\ UNCHANGED <<PrysmLatestHeadSlot, garg, refs, task, results>>
    /\ UNCHANGED SnapRest

\* GetEpochData after wg.Wait (lines 352-471): the assignments and the blocks
\* of the epoch are fetched, either of which can fail and end the call.
EpochMerge ==
  \E c \in SnapCallers :
    /\ gpc[c] = "fan"
    /\ garg[c].kind = "epoch"
    /\ Joined(task[c])
    /\ \/ /\ snapRun.faults
          /\ snap' = [snap EXCEPT ![c] = [NoSnap EXCEPT !.state = "error"]]
       \/ \E held \in HeldOutcomes, proposers \in ProposerOutcomes, now \in Nows :
            Merge(c, \E b \in held : Beyond(b[1], PrysmLatestHeadSlot),
                  EpochBlocks(held, proposers, now), proposers, held, now)
    /\ gpc' = [gpc EXCEPT ![c] = "idle"]
    /\ UNCHANGED <<PrysmLatestHeadSlot, garg, refs, task, results>>
    /\ UNCHANGED SnapRest

SnapNext ==
  \/ SlotCompare
  \/ SlotWrite
  \/ EpochCall
  \/ Balances
  \/ Totals
  \/ SlotMerge
  \/ EpochMerge

SnapSpec == SnapInit /\ [][SnapNext]_vars

(* ------------------------------------------------------------------ *)
(* Properties of GetEpochData and GetSlotData                          *)
(* ------------------------------------------------------------------ *)

\* Caller c's call got past its fetches of validators, assignments and
\* blocks and has ended.
Ended(c) == gpc[c] = "idle" /\ snap[c].state \in {"returned", "panic"}

\* C22: a failed balance or withdrawal-total lookup of a fan-out task does
\* not make GetEpochData or GetSlotData fail or abort: the call returns a
\* snapshot, in which the maps of the failed lookups give 0.
C22_SubTaskFailureTolerated ==
  \A c \in SnapCallers :
    (Ended(c) /\ \E v \in ResultMaps : results[c][v].failed) =>
      /\ snap[c].state = "returned"
      /\ \A v \in ResultMaps : results[c][v].failed => v \in snap[c].zero

\* C24: the head-slot counter never decreases.
C24_HeadSlotNeverDecreases == [][PrysmLatestHeadSlot' >= PrysmLatestHeadSlot]_vars

\* The blocks a returned GetEpochData has under a slot, real and placeholder.
RealAt(c, q) == { b \in snap[c].blocks : b.slot = q /\ b.status = 1 }

PlaceholdersAt(c, q) == { b \in snap[c].blocks : b.slot = q /\ b.status # 1 }

\* C23: in the result of GetEpochData a slot has a placeholder block exactly
\* when the proposer assignments contain the slot and the node returned no
\* block for it; the placeholder has the assigned proposer, and is scheduled
\* with root 0x0 when the slot's time is later than now minus 60 seconds,
\* missed with root 0x1 otherwise; no slot has a placeholder and a real block.
C23_PlaceholderIffAssignedAndNoBlock ==
  \A c \in SnapCallers :
    (Ended(c) /\ snap[c].state = "returned" /\ garg[c].kind = "epoch") =>
      \A q \in 0..(3 * SlotsPerEpoch) :
        LET ph == PlaceholdersAt(c, q)
        IN  /\ (ph # {}) <=>
                 (q \in DOMAIN snap[c].proposers /\ \A h \in snap[c].held : h[1] # q)
            /\ Cardinality(ph) <= 1
            /\ \A b \in ph :
                 /\ b.proposer = snap[c].proposers[q]
                 /\ IF q * 12 > snap[c].now - 60
                    THEN b.status = 0 /\ b.blockRoot = "0x0"
                    ELSE b.status = 2 /\ b.blockRoot = "0x1"
            /\ ~(ph # {} /\ RealAt(c, q) # {})
            /\ { b.blockRoot : b \in RealAt(c, q) }
                 = { h[2] : h \in { g \in snap[c].held : g[1] = q } }

\* A returned epoch has a real block at slot 32, a missed placeholder at
\* slot 33, whose time is exactly 60 seconds before now, and a scheduled one
\* at slot 34.
C23_Witness ==
  \E c \in SnapCallers :
    /\ Ended(c) /\ snap[c].state = "returned" /\ garg[c].kind = "epoch"
    /\ snap[c].now = 456
    /\ RealAt(c, 32) # {}
    /\ \E b \in PlaceholdersAt(c, 33) : b.status = 2 /\ b.blockRoot = "0x1" /\ b.proposer = 8
    /\ \E b \in PlaceholdersAt(c, 34) : b.status = 0 /\ b.blockRoot = "0x0" /\ b.proposer = 9

\* The task that assigns a result map.
WriterOf(v) ==
  CASE v \in {"validatorBalances1d", "validatorWithdrawal1d"} -> "1d"
    [] v \in {"validatorBalances7d", "validatorWithdrawal7d"} -> "7d"
    [] v \in {"validatorBalances31d", "validatorWithdrawal31d"} -> "31d"
    [] v = "validatorWithdrawal" -> "now"

\* C29: each of the seven result maps is written by one task only, its own,
\* and the merge of a call starts when all four tasks have finished.
C29_PrivateResultsJoinedBeforeMerge ==
  \A c \in SnapCallers :
    /\ \A v \in ResultMaps : results[c][v].by \subseteq {WriterOf(v)}
    /\ Ended(c) => snap[c].pending = {}
    /\ Ended(c) => \A t \in Tasks : task[c][t] = "done"

\* A call has returned after its four tasks wrote the seven maps.
C29_Witness ==
  \E c \in SnapCallers :
    /\ Ended(c) /\ snap[c].state = "returned"
    /\ \A v \in ResultMaps : results[c][v].by = {WriterOf(v)}
    /\ snap[c].zero = {}

\* The reference slots of a call with current slot s are the floored
\* differences and are in order.
FlooredAndOrdered(c) ==
  LET s == garg[c].slot
  IN  /\ refs[c].slot1d = Max(0, s - SlotsPerDay)
      /\ refs[c].slot7d = Max(0, s - 7 * SlotsPerDay)
      /\ refs[c].slot31d = Max(0, s - 31 * SlotsPerDay)
      /\ 0 <= refs[c].slot31d
      /\ refs[c].slot31d <= refs[c].slot7d
      /\ refs[c].slot7d <= refs[c].slot1d
      /\ refs[c].slot1d <= s

\* C30 (as claimed): for every current slot s the reference slots are
\* max(0, s-7200), max(0, s-50400) and max(0, s-223200), not negative and in
\* the order 31-day <= 7-day <= 1-day <= s.
C30_ReferenceSlotsFloored ==
  \A c \in SnapCallers : gpc[c] = "fan" => FlooredAndOrdered(c)

\* C30 (amended): the same for every current slot s that the signed word
\* holds (s below 2^63 in the program); the reference slots are never
\* negative for any s.
C30_ReferenceSlotsFlooredInSignedRange ==
  \A c \in SnapCallers :
    gpc[c] = "fan" =>
      /\ garg[c].slot < SlotHalf => FlooredAndOrdered(c)
      /\ refs[c].slot1d >= 0 /\ refs[c].slot7d >= 0 /\ refs[c].slot31d >= 0

\* A call with a current slot one past the 31-day offset.
C30_Witness ==
  \E c \in SnapCallers :
    /\ gpc[c] = "fan"
    /\ garg[c].slot = 31 * SlotsPerDay + 1
    /\ refs[c].slot31d = 1
    /\ refs[c].slot7d = 24 * SlotsPerDay + 1
    /\ refs[c].slot1d = 30 * SlotsPerDay + 1


\* C37: when GetSlotData calls do not overlap (one caller), a call that ends
\* never took the branch that adds the withdrawals of the passed block, also
\* when the block carries withdrawals and its slot raised the counter; the
\* call returns, and the Withdrawal field is the stored total of the slot,
\* 0 exactly when the lookup gave none.
C37_SlotDataNeverAddsWithdrawals ==
  \A c \in SnapCallers :
    (Cardinality(snapRun.callers) = 1 /\ Ended(c) /\ garg[c].kind = "slot") =>
      /\ ~snap[c].added
      /\ snap[c].state = "returned"
      /\ PrysmLatestHeadSlot >= garg[c].slot
      /\ ("validatorWithdrawal" \in snap[c].zero)
           = (results[c]["validatorWithdrawal"].val # "full")

\* A call for a block with withdrawals, whose slot became the counter.
C37_Witness ==
  \E c \in SnapCallers :
    /\ Cardinality(snapRun.callers) = 1 /\ Ended(c) /\ garg[c].kind = "slot"
    /\ garg[c].wd /\ garg[c].slot = 10 /\ PrysmLatestHeadSlot = 10
    /\ results[c]["validatorWithdrawal"].val = "full"
    /\ ~snap[c].added

\* The historical offsets of the fan-out.
Offsets == Tasks \ {"now"}

\* C39: in a returned snapshot, an offset whose balance lookup failed has had
\* no withdrawal-total lookup, and its balance and withdrawal fields are 0
\* for every validator; the fields of an offset whose lookups succeeded are
\* the values looked up.
C39_FailedBalanceSkipsTotals ==
  \A c \in SnapCallers : \A t \in Offsets :
    (gpc[c] = "idle" /\ snap[c].state = "returned") =>
      /\ results[c][BalancesOf(t)].failed =>
           /\ results[c][WithdrawalOf(t)].by = {}
           /\ BalancesOf(t) \in snap[c].zero
           /\ WithdrawalOf(t) \in snap[c].zero
      /\ (~results[c][BalancesOf(t)].failed /\ ~results[c][WithdrawalOf(t)].failed) =>
           /\ BalancesOf(t) \notin snap[c].zero
           /\ WithdrawalOf(t) \notin snap[c].zero

\* The 7-day balances failed; the 1-day and 31-day fields have their values.
C39_Witness ==
  \E c \in SnapCallers :
    /\ gpc[c] = "idle" /\ snap[c].state = "returned"
    /\ results[c]["validatorBalances7d"].failed
    /\ results[c]["validatorWithdrawal7d"].by = {}
    /\ {"validatorBalances7d", "validatorWithdrawal7d"} \subseteq snap[c].zero
    /\ snap[c].zero \cap {"validatorBalances1d", "validatorWithdrawal1d",
                          "validatorBalances31d", "validatorWithdrawal31d"} = {}

\* C38: GetBlockStatusByEpoch returns, for every container of the answer
\* that has one of the four block variants, the slot of its block with the
\* root and the canonical flag of the container.
C38_StatusReportsSlotRootCanonical ==
  (ppc = "status" /\ ~canon.err) =>
    /\ Len(canon.blocks) = Len(canon.asked)
    /\ \A i \in 1..Len(canon.asked) :
         canon.asked[i].variant \in {"phase0", "altair", "bellatrix", "capella"} =>
           /\ canon.blocks[i].slot = canon.asked[i].slot
           /\ canon.blocks[i].blockRoot = canon.asked[i].blockRoot
           /\ canon.blocks[i].canonical = canon.asked[i].canonical

\* The epochs the cache holds.
CachedEpochs == { assignmentsCache[i].epoch : i \in 1..Len(assignmentsCache) }

\* C36: the cache holds at most 10 epochs, each once, after any sequence of
\* calls; when an epoch it does not hold is added while it holds 10, it drops
\* the least recently used epoch, keeps the other nine and still holds 10.
C36_CacheHoldsAtMostTenEpochs ==
  /\ [](/\ Len(assignmentsCache) <= assignmentsCacheSize
        /\ Cardinality(CachedEpochs) = Len(assignmentsCache))
  /\ [][\A e \in Epochs :
          (/\ Len(assignmentsCache) = assignmentsCacheSize
           /\ ~LruHas(assignmentsCache, e)
           /\ LruHas(assignmentsCache', e))
          => /\ Len(assignmentsCache') = assignmentsCacheSize
             /\ ~LruHas(assignmentsCache', assignmentsCache[assignmentsCacheSize].epoch)
             /\ \A i \in 1..(assignmentsCacheSize - 1) :
                  LruHas(assignmentsCache', assignmentsCache[i].epoch)]_vars

\* Eleven epochs were added; epoch 0, added first and returned from the
\* cache since, is still held, and epoch 1 was dropped for the eleventh.
C36_Witness ==
  /\ Len(assignmentsCache) = assignmentsCacheSize
  /\ committed[1] # 0 /\ ~LruHas(assignmentsCache, 1)
  /\ LruHas(assignmentsCache, 0)
  /\ assignmentsCache[1].epoch = assignmentsCacheSize

(* ------------------------------------------------------------------ *)
(* The stream task as a caller of GetEpochAssignments                  *)
(* (prysm.go lines 80-110, 517-557, 721-739, 175-235)                  *)
(* ------------------------------------------------------------------ *)

\* The name under which the goroutine of line 80 calls GetEpochAssignments.
StreamCaller == "c2"

\* The two blocks the node holds at a slot, each with one attestation.
HeldAttested(slot) ==
  << Container("phase0", "ra", TRUE, slot, NoPayload, FALSE, 0, << PlainAttestation >>),
     Container("phase0", "rb", TRUE, slot, NoPayload, FALSE, 0, << PlainAttestation >>) >>

\* The consumer of the channel is stalled: it never reads.  Meanwhile
\* another caller asks for the assignments of an epoch.
StalledRun == StreamRun(BacklogHeads, {}, Roots, FALSE, FALSE, TRUE)

CallerRun ==
  CacheRun(Callers \ {StreamCaller}, 1, {1, 2}, FALSE,
           { Page(1, TRUE, TRUE, "t", 2), Page(1, TRUE, TRUE, "", 2), NoPage }, TRUE)

MutexInit ==
  /\ ExporterInit({NoRun})
  /\ StreamStart({StalledRun})
  /\ CacheStart({CallerRun})
  /\ SnapAtRest
  /\ ParseAtRest

TaskRest == <<exporterVars, parseVars, snapVars, streamRun, cacheRun>>

\* Line 82: Recv returns the next head message.
TaskRecv ==
  /\ spc = "recv"
  /\ heads < streamRun.heads
  /\ head' = heads + 1
  /\ listing' = HeldAttested(heads + 1)
  /\ heads' = heads + 1
  /\ spc' = "list"
  /\ UNCHANGED <<blocks, newBlockChan, dueLeft, nForwarded, lastForwarded, nReceived,
                 lastReceived, sleeps, attempts, consuming>>
  /\ UNCHANGED <<cpc, cepoch, assignmentsCacheMux, assignmentsCache, pagesRead, instances,
                 callsMade, cres, follows, committed, addsSince, gathered, lastPage, heap>>
  /\ UNCHANGED TaskRest

\* Lines 98, 539, 722: inside GetBlocksBySlot the conversion of the next
\* container reaches its attestation and calls GetEpochAssignments.
TaskCalls ==
  /\ spc = "list"
  /\ cpc[StreamCaller] = "idle"
  /\ spc' = "assign"
  /\ cpc' = [cpc EXCEPT ![StreamCaller] = "lock"]
  /\ cepoch' = [cepoch EXCEPT ![StreamCaller] =
                  listing[Len(blocks) + 1].attestations[1].slot \div SlotsPerEpoch]
  /\ follows' = [follows EXCEPT ![StreamCaller] = NoFollow]
  /\ cres' = [cres EXCEPT ![StreamCaller] = NoCall]
  /\ UNCHANGED <<head, listing, blocks, newBlockChan, heads, dueLeft, nForwarded,
                 lastForwarded, nReceived, lastReceived, sleeps, attempts, consuming>>
  /\ UNCHANGED <<assignmentsCacheMux, assignmentsCache, pagesRead, instances, callsMade,
                 committed, addsSince, gathered, lastPage, heap>>
  /\ UNCHANGED TaskRest

\* What a finished call answered to the conversion.
AnswerOf(res) ==
  Answer(res.err,
         [e \in AttEpochs |->
            IF ~res.err /\ res.inst \in DOMAIN heap /\ heap[res.inst].attestors
            THEN [k \in CommitteeKeys(e) |-> MemberAt(k)]
            ELSE [k \in {} |-> 0]])

Returned_Early(c) == TRUE

\* The call of line 722 has returned, its deferred Unlock (line 178) done.
Returned(c) == cpc[c] = "idle" /\ cres[c].done

\* Lines 539-556, 98-105: the conversion goes on with what the call
\* returned; on its error GetBlocksBySlot fails and the task goes back to
\* Recv, otherwise the block is appended and, after the last container, the
\* range loop of line 105 starts.
TaskConverts ==
  /\ spc = "assign"
  /\ Returned(StreamCaller)
  /\ LET b == parseRpcBlock(listing[Len(blocks) + 1], AnswerOf(cres[StreamCaller]))
     IN  IF b.isNil
         THEN /\ blocks' = << >>
              /\ dueLeft' = << >>
              /\ spc' = "recv"
         ELSE /\ blocks' = Append(blocks, b)
              /\ IF Len(blocks) + 1 = Len(listing)
                 THEN /\ spc' = "send"
                      /\ dueLeft' = [i \in 1..Len(listing) |-> listing[i].blockRoot]
                 ELSE /\ spc' = "list"
                      /\ UNCHANGED dueLeft
  /\ UNCHANGED <<head, listing, newBlockChan, heads, nForwarded, lastForwarded, nReceived,
                 lastReceived, sleeps, attempts, consuming>>
  /\ UNCHANGED <<cpc, cepoch, assignmentsCacheMux, assignmentsCache, pagesRead, instances,
                 callsMade, cres, follows, committed, addsSince, gathered, lastPage, heap>>
  /\ UNCHANGED TaskRest

\* ListValidatorAssignments fails for a caller other than the stream task,
\* and ends a listing; the node answers the stream task with assignments.
UpstreamFails == cpc[StreamCaller] # "list" /\ ListFails

UpstreamEnds == ListEnds /\ (cpc[StreamCaller] = "list" => Cacheable(gathered'))

MutexNext ==
  \/ TaskRecv
  \/ TaskCalls
  \/ TaskConverts
  \/ Send
  \/ Call
  \/ LockAndHit
  \/ LockAndMiss
  \/ ListPage
  \/ UpstreamFails
  \/ UpstreamEnds

MutexSpec == MutexInit /\ [][MutexNext]_vars

\* The stream task is blocked at the send of line 107.
BlockedSending == spc = "send" /\ ~ChanCanSend(newBlockChan)

\* C35: the mutex is held exactly by the caller that is inside
\* GetEpochAssignments past Lock; every return, after a cache hit, an
\* upstream error or a result that was not cached, leaves it free; the
\* stream task is not inside GetEpochAssignments when it is at the send
\* statement, so while it is blocked there the mutex is free or held by
\* another caller that is inside its listing.
C35_MutexNeverHeldWhileSending ==
  /\ [](/\ \A c \in Callers : (cpc[c] = "list") = (assignmentsCacheMux = c)
        /\ spc = "send" => cpc[StreamCaller] = "idle"
        /\ BlockedSending =>
             \A c \in Callers : cpc[c] = "lock" =>
               \/ assignmentsCacheMux = "free"
               \/ cpc[assignmentsCacheMux] = "list" /\ assignmentsCacheMux # StreamCaller)
  /\ [][\A c \in Callers :
          (cpc[c] # "idle" /\ cpc'[c] = "idle") => assignmentsCacheMux' = "free"]_vars

\* While the stream task is blocked at a full channel another caller took
\* the mutex and is listing.
C35_Witness ==
  /\ BlockedSending
  /\ Len(newBlockChan) = newBlockChanCap
  /\ \E c \in Callers \ {StreamCaller} : cpc[c] = "list" /\ assignmentsCacheMux = c
  /\ cres[StreamCaller].done

====
